---- MODULE Spec2Model ----
(***************************************************************************)
(* Verification model of docker-stackwait / stackman.                      *)
(*                                                                         *)
(* The module holds three state machines, each with its own specification: *)
(*   SpecApply  - cmd/apply.go runApply with its signal-handler goroutine, *)
(*                driving deployer.Deploy (deployer/stack.go and the       *)
(*                deployer's service files);                               *)
(*   SpecWatch  - the update watcher waitForServiceUpdate of the deployer; *)
(*   SpecMain   - the first-generation main() of main.go with its          *)
(*                waitHealthy / rollback.                                  *)
(* A specification leaves the variables of the other machines unchanged.   *)
(***************************************************************************)
EXTENDS Integers, FiniteSets, Sequences, TLC

VARIABLES
    \* ---- runApply (cmd/apply.go) ----
    optNoWait,          \* opts.NoWait
    optPrune,           \* opts.Prune
    cluster,            \* the stack's services in the swarm: name -> state
    snap,               \* snapshot.CreateSnapshot result: name -> state ("none" before it is taken)
    mainPc,             \* position of the main goroutine in runApply
    dPc,                \* position inside StackDeployer.Deploy
    dTodo,              \* services a Deploy loop has still to visit
    toRemove,           \* servicesToRemove of removeObsoleteServices
    updated,            \* deployResult.UpdatedServices
    ctxDone,            \* the apply context (WithTimeout) is done
    sigPending,         \* a signal sits in sigChan (buffer of 1)
    sigSeen,            \* a signal has been delivered to the process
    sigPc,              \* position of the signal-handler goroutine
    deploymentComplete, \* number of values in the deploymentComplete channel
    rbCalls,            \* invocations of snapshot.Rollback, per caller
    rbRunning,          \* callers currently inside snapshot.Rollback
    ret,                \* what runApply returned: "none", "nil", "err"
    exitCode,           \* process exit code, -1 while the process runs
    convFailed,         \* a convergence wait returned an error
    deployFailed,       \* Deploy returned an error
    writeAfterRb,       \* Deploy issued a cluster write after a rollback began
    sigAtComplete,      \* when the handler received the signal: "before"/"after" the apply was
                        \* marked complete, "late" if runApply had already returned an error
    orphanRemoveIssued, \* ServiceRemove was issued for an orphan
    optAllowLatest,     \* opts.AllowLatest
    composeSpec,        \* the compose file: "valid", "noImage" (a service without
                        \* an image) or "latest" (an image reference ending in :latest)
    convTimeout,        \* the failed convergence wait failed on a deadline
    \* ---- waitForServiceUpdate (deployer) ----
    cfgMaxFailedTaskCount, \* maxFailedTaskCount handed to NewStackDeployer
    MaxFailedTaskCount, \* d.MaxFailedTaskCount
    tasks,              \* the service's tasks in the swarm: task id -> task
    seenFailedTasks,    \* ids of the new tasks already counted as failed
    newFailedTaskCount, \* counter of failed new tasks
    wPc,                \* "polling", or the way waitForServiceUpdate returned
    wCtxDone,           \* ctx of waitForServiceUpdate is done
    wExpired,           \* time.Since(start) > timeout (5 minutes)
    \* ---- main() of main.go ----
    mCluster,           \* the stack's services in the swarm: name -> spec
    pre,                \* the stack's services when main() started
    prevImages,         \* prevImages: name -> image, "none" where unset
    now,                \* time elapsed since the context was created (ticks)
    mPc,                \* position of main()
    mTodo,              \* services a range loop has still to visit
    wStart,             \* start of waitHealthy
    failCause,          \* why waitHealthy returned false
    rbAllOk,            \* every docker call of rollback() succeeded so far
    rbExpiredCall,      \* rollback() issued a call under an expired context
    stack,              \* os.Args[1], the stack name
    mNetworks,          \* names of the networks that exist in the swarm
    nTodo,              \* compose.Networks the loop has still to visit
    mCreated,           \* what main() created: kind, local name, name, namespace label
    \* ---- StackDeployer.Deploy: which services it touches (deployer) ----
    svcs,               \* services in the swarm: full name -> namespace label, or "absent"
    svcsBefore,         \* svcs when Deploy was entered
    sdServices,         \* composeFile.Services: the local names of the manifest
    sdTodo,             \* manifest services deployServices has still to visit
    sdPc,               \* position of Deploy
    sdUpdated,          \* full names of the services a ServiceUpdate changed
    sdRemoved,          \* full names of the services a ServiceRemove removed
    sdCreated,          \* full names of the services a ServiceCreate created
    \* ---- Planner.CreatePlan (internal/plan) ----
    pCurrent,           \* CurrentState: resource kind -> local names present
    pDesired,           \* DesiredState: resource kind -> local names present
    pDesiredSvc,        \* DesiredState.Services: local name -> compose service
    plan,               \* the Plan CreatePlan returned: kind -> sequence of actions
    plan2,              \* the Plan of a second CreatePlan call on the same states
    pPc,                \* "start", "planned" (one call made), "replanned" (two calls)
    pClientCalls,       \* calls made on p.client
    \* ---- waitForAllTasksHealthy (cmd/apply.go) ----
    updatedServices,    \* the services the wait is about
    hTasks,             \* service -> what TaskList returns: an error or its tasks
    hCtxDone,           \* the context of the wait is done
    hPc,                \* "waiting", or how the wait returned: "ok", "timeout"
    \* ---- HealthMonitor.WaitHealthy (monitor, unnamed/part_010) ----
    mhMaxFailedTaskCount, \* m.MaxFailedTaskCount
    mhServices,         \* the services of the cluster that carry the stack label
    mhTasks,            \* the tasks of those services
    mhElapsed,          \* time.Since(start), by threshold
    failedTasks,        \* failedTasks: service -> failed task count of the last pass
    mhPc,               \* "polling", or the value WaitHealthy returned
    \* ---- swarm.GetCurrentState (internal/swarm/state.go) ----
    gcStackName,        \* stackName
    gcListed,           \* what the label-filtered lists return
    gcState,            \* state: kind -> map from key to the stored object
    gcFailing,          \* the call that returned an error, or "none"
    gcPc,               \* "start", "ok" (state, nil) or "err" (nil, err)
    \* ---- deployService, update of an existing service (deployer, unnamed/part_001) ----
    uPc,                \* position in deployService: "listOld", "submit", "settle", "wait", "ok", "err"
    uOldTasks,          \* oldTasks: ids listed before the update
    uSubmitted,         \* ServiceUpdate was accepted
    uExisting,          \* ids of the tasks that existed when the update was submitted
    \* ---- waitForServiceUpdates (cmd/apply.go) ----
    wuServices,         \* services []swarm.ServiceUpdateResult
    wuPc,               \* "off", "loop", "waiting", "returned"
    wuWaited,           \* services handed to WaitForUpdateComplete, in call order
    wuResults,          \* what each WaitForUpdateComplete returned
    wuRet,              \* <<"none">>, <<"nil">> or <<"err", service>>
    \* ---- waitForServicesRemoval (deployer, unnamed/part_001) ----
    rmServices,         \* services []swarm.Service, by id
    rmExists,           \* the swarm still has the service
    rmIdx,              \* position of the range
    rmPc,               \* "off", "select", "inspect", "returned"
    rmCtxDone,          \* ctx is done
    rmNotFound,         \* services the inspect reported as not found
    rmRet,              \* "none", "nil", "err"
    \* ---- deployService, version token of ServiceUpdate (deployer, unnamed/part_001) ----
    suVersion,          \* version index of the service in the swarm
    suSpec,             \* whose spec the service runs: "prev", "new", "other"
    suPc,               \* "off", "list", "listOld", "update", "settle", "returned"
    suRead,             \* existing.Version
    suReads,            \* successful ServiceList calls
    suUpdates,          \* ServiceUpdate calls
    suConflicts,        \* ServiceUpdate calls rejected for their version index
    suRet,              \* "none", "listError", "updateError"
    \* ---- HealthMonitor, retries of TaskList (monitor, unnamed/part_010) ----
    rtFn,               \* "WaitHealthy" or "WaitServicesReady"
    rtServices,         \* number of services listed
    rtPass,             \* pass of the outer loop
    rtSvc,              \* position of the range over the services
    rtRetry,            \* retry
    rtAttempts,         \* failed TaskList calls for this service in this pass
    rtWaits,            \* seconds slept between the attempts for this service
    rtAllOk,            \* allRunning / allReady
    rtExhausted,        \* some retry loop ended with its last attempt failing
    rtPc,               \* "off", "attempt", "endPass", "returned"
    rtVerdict,          \* "none", "ok", "false", "err"
    \* ---- rollback, run once or twice (main.go) ----
    rcCluster,          \* the services in the swarm: name -> spec
    rcOld,              \* old: name -> previous image, "none" when not recorded
    rcTodo,             \* keys of old the range has not visited yet
    rcRun,              \* which call of rollback this is
    rcPc,               \* "off", "loop", "returned"
    rcAttempted,        \* services this call has made its inspect for
    rcFailedFirst,      \* services for which a call of the first run failed
    rcAfterFirst,       \* the services as the first run left them
    \* ---- LogStreamer.StreamLogs (monitor, unnamed/part_012) ----
    lsRunning,          \* running containers of the stack
    lsPresentAtStart,   \* the containers that ran when StreamLogs was called
    trackedContainers,  \* keys of trackedContainers
    lsStreams,          \* container -> streamContainerLogs goroutines started for it
    lsCtxDone,          \* ctx is done
    lsPc,               \* "off", "scan", "loop", "returned"
    \* ---- event, health-log and service-log streams (monitor/events.go, unnamed/part_011, parts/logging.go) ----
    stCtxDone,          \* ctx is done
    evPc,               \* StreamEvents: "off", "loop", "returned"
    evPending,          \* events waiting on msgs
    hlPc,               \* StreamHealthLogs: "off", "init", "loop", "returned"
    hlTick,             \* a tick waits on ticker.C
    lgPc,               \* StreamLogs: "off", "sleep", "spawn", "returned"
    lgListed,           \* the services ServiceList returns
    lgProc,             \* service -> its docker service logs subprocess
    lgKiller            \* service -> the goroutine that kills the subprocess

applyVars == <<optNoWait, optPrune, cluster, snap, mainPc, dPc, dTodo, toRemove,
               updated, ctxDone, sigPending, sigSeen, sigPc, deploymentComplete,
               rbCalls, rbRunning, ret, exitCode, convFailed, deployFailed,
               writeAfterRb, sigAtComplete, orphanRemoveIssued, optAllowLatest,
               composeSpec, convTimeout>>

watchVars == <<cfgMaxFailedTaskCount, MaxFailedTaskCount, tasks, seenFailedTasks,
               newFailedTaskCount, wPc, wCtxDone, wExpired>>

mainVars == <<mCluster, pre, prevImages, now, mPc, mTodo, wStart, failCause,
              rbAllOk, rbExpiredCall, stack, mNetworks, nTodo, mCreated>>

deployerVars == <<svcs, svcsBefore, sdServices, sdTodo, sdPc, sdUpdated, sdRemoved,
                  sdCreated>>

plannerVars == <<pCurrent, pDesired, pDesiredSvc, plan, plan2, pPc, pClientCalls>>

healthVars == <<updatedServices, hTasks, hCtxDone, hPc>>

monitorVars == <<mhMaxFailedTaskCount, mhServices, mhTasks, mhElapsed, failedTasks,
                  mhPc>>

stateVars == <<gcStackName, gcListed, gcState, gcFailing, gcPc>>

updateVars == <<uPc, uOldTasks, uSubmitted, uExisting>>

waitUpdatesVars == <<wuServices, wuPc, wuWaited, wuResults, wuRet>>

removalVars == <<rmServices, rmExists, rmIdx, rmPc, rmCtxDone, rmNotFound, rmRet>>

submitVars == <<suVersion, suSpec, suPc, suRead, suReads, suUpdates, suConflicts,
                 suRet>>

retryVars == <<rtFn, rtServices, rtPass, rtSvc, rtRetry, rtAttempts, rtWaits,
                rtAllOk, rtExhausted, rtPc, rtVerdict>>

rollbackVars == <<rcCluster, rcOld, rcTodo, rcRun, rcPc, rcAttempted, rcFailedFirst,
                   rcAfterFirst>>

logsVars == <<lsRunning, lsPresentAtStart, trackedContainers, lsStreams, lsCtxDone,
               lsPc>>

streamsVars == <<stCtxDone, evPc, evPending, hlPc, hlTick, lgPc, lgListed, lgProc,
                  lgKiller>>

vars == <<applyVars, watchVars, mainVars, deployerVars, plannerVars, healthVars, monitorVars, stateVars, updateVars, waitUpdatesVars, removalVars, submitVars, retryVars, rollbackVars, logsVars, streamsVars>>

\* What a specification leaves untouched: the variables of the machines it
\* does not run, at fixed values.
outsideApply == <<watchVars, mainVars, deployerVars, plannerVars, healthVars, monitorVars, stateVars, updateVars, waitUpdatesVars, removalVars, submitVars, retryVars, rollbackVars, logsVars, streamsVars>>
outsideWatch == <<applyVars, mainVars, deployerVars, plannerVars, healthVars, monitorVars, stateVars, updateVars, waitUpdatesVars, removalVars, submitVars, retryVars, rollbackVars, logsVars, streamsVars>>
outsideMain == <<applyVars, watchVars, deployerVars, plannerVars, healthVars, monitorVars, stateVars, updateVars, waitUpdatesVars, removalVars, submitVars, retryVars, rollbackVars, logsVars, streamsVars>>
outsidePlanner == <<applyVars, watchVars, mainVars, deployerVars, healthVars, monitorVars, stateVars, updateVars, waitUpdatesVars, removalVars, submitVars, retryVars, rollbackVars, logsVars, streamsVars>>
outsideDeployer == <<applyVars, watchVars, mainVars, plannerVars, healthVars, monitorVars, stateVars, updateVars, waitUpdatesVars, removalVars, submitVars, retryVars, rollbackVars, logsVars, streamsVars>>
outsideMonitor == <<applyVars, watchVars, mainVars, deployerVars, plannerVars, healthVars, stateVars, updateVars, waitUpdatesVars, removalVars, submitVars, retryVars, rollbackVars, logsVars, streamsVars>>
outsideHealth == <<applyVars, watchVars, mainVars, deployerVars, plannerVars, monitorVars, stateVars, updateVars, waitUpdatesVars, removalVars, submitVars, retryVars, rollbackVars, logsVars, streamsVars>>
outsideUpdate == <<applyVars, watchVars, mainVars, deployerVars, plannerVars, healthVars, monitorVars, stateVars, waitUpdatesVars, removalVars, submitVars, retryVars, rollbackVars, logsVars, streamsVars>>
outsideWatchAndUpdate == <<applyVars, mainVars, deployerVars, plannerVars, healthVars, monitorVars, stateVars, waitUpdatesVars, removalVars, submitVars, retryVars, rollbackVars, logsVars, streamsVars>>
outsideWaitUpdates == <<applyVars, watchVars, mainVars, deployerVars, plannerVars, healthVars, monitorVars, stateVars, updateVars, removalVars, submitVars, retryVars, rollbackVars, logsVars, streamsVars>>
outsideState == <<applyVars, watchVars, mainVars, deployerVars, plannerVars, healthVars, monitorVars, updateVars, waitUpdatesVars, removalVars, submitVars, retryVars, rollbackVars, logsVars, streamsVars>>
outsideSubmit == <<applyVars, watchVars, mainVars, deployerVars, plannerVars, healthVars, monitorVars, stateVars, updateVars, waitUpdatesVars, removalVars, retryVars, rollbackVars, logsVars, streamsVars>>
outsideRemoval == <<applyVars, watchVars, mainVars, deployerVars, plannerVars, healthVars, monitorVars, stateVars, updateVars, waitUpdatesVars, submitVars, retryVars, rollbackVars, logsVars, streamsVars>>
outsideRollback == <<applyVars, watchVars, mainVars, deployerVars, plannerVars, healthVars, monitorVars, stateVars, updateVars, waitUpdatesVars, removalVars, submitVars, retryVars, logsVars, streamsVars>>
outsideRetry == <<applyVars, watchVars, mainVars, deployerVars, plannerVars, healthVars, monitorVars, stateVars, updateVars, waitUpdatesVars, removalVars, submitVars, rollbackVars, logsVars, streamsVars>>
outsideStreams == <<applyVars, watchVars, mainVars, deployerVars, plannerVars, healthVars, monitorVars, stateVars, updateVars, waitUpdatesVars, removalVars, submitVars, retryVars, rollbackVars, logsVars>>
outsideLogs == <<applyVars, watchVars, mainVars, deployerVars, plannerVars, healthVars, monitorVars, stateVars, updateVars, waitUpdatesVars, removalVars, submitVars, retryVars, rollbackVars, streamsVars>>

WatchOff ==
    /\ cfgMaxFailedTaskCount = 0 /\ MaxFailedTaskCount = 0 /\ tasks = <<>>
    /\ seenFailedTasks = {} /\ newFailedTaskCount = 0 /\ wPc = "off"
    /\ wCtxDone = FALSE /\ wExpired = FALSE

MainOff ==
    /\ mCluster = <<>> /\ pre = <<>> /\ prevImages = <<>> /\ now = 0
    /\ mPc = "off" /\ mTodo = {} /\ wStart = 0 /\ failCause = "none"
    /\ rbAllOk = TRUE /\ rbExpiredCall = FALSE
    /\ stack = "" /\ mNetworks = {} /\ nTodo = {} /\ mCreated = {}

DeployerOff ==
    /\ svcs = <<>> /\ svcsBefore = <<>> /\ sdServices = {} /\ sdTodo = {}
    /\ sdPc = "off" /\ sdUpdated = {} /\ sdRemoved = {} /\ sdCreated = {}

PlannerOff ==
    /\ pCurrent = <<>> /\ pDesired = <<>> /\ pDesiredSvc = <<>>
    /\ plan = <<>> /\ plan2 = <<>> /\ pPc = "off" /\ pClientCalls = 0

HealthOff ==
    /\ updatedServices = {} /\ hTasks = <<>> /\ hCtxDone = FALSE /\ hPc = "off"

MonitorOff ==
    /\ mhMaxFailedTaskCount = 0 /\ mhServices = {} /\ mhTasks = <<>>
    /\ mhElapsed = "start" /\ failedTasks = <<>> /\ mhPc = "off"

StateOff ==
    /\ gcStackName = <<>> /\ gcListed = <<>> /\ gcState = <<>> /\ gcFailing = "none" /\ gcPc = "off"

UpdateOff ==
    /\ uPc = "off" /\ uOldTasks = {} /\ uSubmitted = FALSE /\ uExisting = {}

WaitUpdatesOff ==
    /\ wuServices = <<>> /\ wuPc = "off" /\ wuWaited = <<>> /\ wuResults = <<>> /\ wuRet = <<"none">>

RemovalOff ==
    /\ rmServices = <<>> /\ rmExists = <<>> /\ rmIdx = 0 /\ rmPc = "off"
    /\ rmCtxDone = FALSE /\ rmNotFound = {} /\ rmRet = "none"

SubmitOff ==
    /\ suVersion = 0 /\ suSpec = "prev" /\ suPc = "off" /\ suRead = 0
    /\ suReads = 0 /\ suUpdates = 0 /\ suConflicts = 0 /\ suRet = "none"

RetryOff ==
    /\ rtFn = "off" /\ rtServices = 0 /\ rtPass = 0 /\ rtSvc = 0 /\ rtRetry = 0 /\ rtAttempts = 0
    /\ rtWaits = <<>> /\ rtAllOk = TRUE /\ rtExhausted = FALSE /\ rtPc = "off" /\ rtVerdict = "none"

RollbackOff ==
    /\ rcCluster = <<>> /\ rcOld = <<>> /\ rcTodo = {} /\ rcRun = 0 /\ rcPc = "off"
    /\ rcAttempted = {} /\ rcFailedFirst = {} /\ rcAfterFirst = <<>>

LogsOff ==
    /\ lsRunning = {} /\ lsPresentAtStart = {} /\ trackedContainers = {}
    /\ lsStreams = <<>> /\ lsCtxDone = FALSE /\ lsPc = "off"

StreamsOff ==
    /\ stCtxDone = FALSE /\ evPc = "off" /\ evPending = 0 /\ hlPc = "off" /\ hlTick = FALSE
    /\ lgPc = "off" /\ lgListed = {} /\ lgProc = <<>> /\ lgKiller = <<>>

ApplyOff ==
    /\ optNoWait = FALSE /\ optPrune = FALSE /\ cluster = <<>> /\ snap = <<>>
    /\ mainPc = "off" /\ dPc = "idle" /\ dTodo = {} /\ toRemove = {}
    /\ updated = {} /\ ctxDone = FALSE /\ sigPending = FALSE /\ sigSeen = FALSE
    /\ sigPc = "off" /\ deploymentComplete = 0 /\ rbCalls = <<>> /\ rbRunning = {}
    /\ ret = "none" /\ exitCode = -1 /\ convFailed = FALSE /\ deployFailed = FALSE
    /\ writeAfterRb = FALSE /\ sigAtComplete = "none" /\ orphanRemoveIssued = FALSE
    /\ optAllowLatest = FALSE /\ composeSpec = "valid" /\ convTimeout = FALSE

----------------------------------------------------------------------------
(* runApply                                                                *)

\* Local service names of the modelled stack: "web" and "api" are in the
\* manifest, "old" is not (an orphan whenever it exists in the cluster).
Names == {"web", "api", "old"}
Manifest == {"web", "api"}

Callers == {"main", "sig"}

\* Sum of snapshot.Rollback invocations of one apply.
RollbackCount == rbCalls["main"] + rbCalls["sig"]

Alive == exitCode = -1

InitApply ==
    /\ optNoWait \in BOOLEAN
    /\ optPrune \in BOOLEAN
    /\ cluster \in [Names -> {"absent", "prev"}]
    /\ snap = [n \in Names |-> "none"]
    /\ mainPc = "parse"
    /\ dPc = "idle"
    /\ dTodo = {}
    /\ toRemove = {}
    /\ updated = {}
    /\ ctxDone = FALSE
    /\ sigPending = FALSE
    /\ sigSeen = FALSE
    /\ sigPc = "notStarted"
    /\ deploymentComplete = 0
    /\ rbCalls = [c \in Callers |-> 0]
    /\ rbRunning = {}
    /\ ret = "none"
    /\ exitCode = -1
    /\ convFailed = FALSE
    /\ deployFailed = FALSE
    /\ writeAfterRb = FALSE
    /\ sigAtComplete = "none"
    /\ orphanRemoveIssued = FALSE
    /\ optAllowLatest \in BOOLEAN
    /\ composeSpec \in {"valid", "noImage", "latest"}
    /\ convTimeout = FALSE
    /\ WatchOff /\ MainOff /\ DeployerOff /\ PlannerOff /\ HealthOff /\ MonitorOff /\ StateOff /\ UpdateOff /\ WaitUpdatesOff /\ RemovalOff /\ SubmitOff /\ RetryOff /\ RollbackOff /\ LogsOff /\ StreamsOff

\* A docker API call made under the apply context: it can fail for any reason
\* and always fails once the context is done.
CallOutcomes == IF ctxDone THEN {FALSE} ELSE BOOLEAN

\* Ghost update: a Deploy write that lands after some rollback was invoked.
NoteWrite == writeAfterRb' = (writeAfterRb \/ RollbackCount > 0)

\* snapshot.Rollback restores the snapshot: a service that existed gets its
\* previous spec back, a service this apply created is removed.
RollbackEffect(c) ==
    [n \in Names |->
        IF snap[n] = "prev"
        THEN (IF c[n] = "new" THEN "prev" ELSE c[n])
        ELSE (IF c[n] = "new" THEN "absent" ELSE c[n])]

\* runApply returns an error (or nil) to ExecuteApply.
Return(r) ==
    /\ mainPc' = "returned"
    /\ ret' = r

\* apply.go:105-117  client init and compose.ParseComposeFile.
ParseCompose ==
    /\ Alive /\ mainPc = "parse"
    /\ \E ok \in BOOLEAN :
         IF ok THEN mainPc' = "snapshot" /\ ret' = ret
               ELSE Return("err")
    /\ UNCHANGED <<outsideApply, optNoWait, optPrune, optAllowLatest, composeSpec, cluster, snap, dPc, dTodo, toRemove, updated,
                   ctxDone, sigPending, sigSeen, sigPc, deploymentComplete, rbCalls,
                   rbRunning, exitCode, convFailed, convTimeout, deployFailed, writeAfterRb,
                   sigAtComplete, orphanRemoveIssued>>

\* A runApply that goes on to Deploy without taking the snapshot.
CreateSnapshot_NotTaken ==
    /\ Alive /\ mainPc = "snapshot"
    /\ snap' = snap
    /\ mainPc' = "spawn"
    /\ UNCHANGED <<outsideApply, optNoWait, optPrune, optAllowLatest, composeSpec, cluster, dPc, dTodo, toRemove, updated,
                   ctxDone, sigPending, sigSeen, sigPc, deploymentComplete, rbCalls,
                   rbRunning, ret, exitCode, convFailed, convTimeout, deployFailed, writeAfterRb,
                   sigAtComplete, orphanRemoveIssued>>

\* apply.go:125  snap := snapshot.CreateSnapshot(ctx, stackDeployer).
CreateSnapshot ==
    /\ Alive /\ mainPc = "snapshot"
    /\ snap' = cluster
    /\ mainPc' = "spawn"
    /\ UNCHANGED <<outsideApply, optNoWait, optPrune, optAllowLatest, composeSpec, cluster, dPc, dTodo, toRemove, updated,
                   ctxDone, sigPending, sigSeen, sigPc, deploymentComplete, rbCalls,
                   rbRunning, ret, exitCode, convFailed, convTimeout, deployFailed, writeAfterRb,
                   sigAtComplete, orphanRemoveIssued>>

\* apply.go:131  go func() { sig := <-sigChan ... }; then Deploy is entered.
SpawnHandler ==
    /\ Alive /\ mainPc = "spawn"
    /\ sigPc' = "waiting"
    /\ mainPc' = "deploy"
    /\ dPc' = "exited"
    /\ UNCHANGED <<outsideApply, optNoWait, optPrune, optAllowLatest, composeSpec, cluster, snap, dTodo, toRemove, updated,
                   ctxDone, sigPending, sigSeen, deploymentComplete, rbCalls,
                   rbRunning, ret, exitCode, convFailed, convTimeout, deployFailed, writeAfterRb,
                   sigAtComplete, orphanRemoveIssued>>

InDeploy(p) == Alive /\ mainPc = "deploy" /\ dPc = p

DeployFrame == UNCHANGED <<outsideApply, optNoWait, optPrune, optAllowLatest, composeSpec, snap, mainPc, ctxDone, sigPending,
                           sigSeen, sigPc, deploymentComplete, rbCalls, rbRunning,
                           ret, exitCode, convFailed, convTimeout, deployFailed, sigAtComplete>>

\* A Deploy step that touches no service: it succeeds or fails.
OpaqueStep(from, to) ==
    /\ InDeploy(from)
    /\ \E ok \in CallOutcomes : dPc' = IF ok THEN to ELSE "err"
    /\ UNCHANGED <<cluster, dTodo, toRemove, updated, writeAfterRb, orphanRemoveIssued>>
    /\ DeployFrame

\* stack.go:33  d.RemoveExitedContainers(ctx).
DeployRemoveExited == OpaqueStep("exited", "obsolete")

\* removeObsoleteServices, up to the list of services to remove: every
\* labelled service whose name is not in the compose file.  opts.Prune is not
\* an input of Deploy.
DeployObsolete ==
    /\ InDeploy("obsolete")
    /\ \E ok \in CallOutcomes :
         LET current == {n \in Names : cluster[n] \in {"prev", "new"}}
             gone    == {n \in current : n \notin Manifest}
         IN IF ~ok THEN dPc' = "err" /\ UNCHANGED <<dTodo, toRemove>>
            ELSE IF current = {} \/ gone = {}
                 THEN dPc' = "pull" /\ UNCHANGED <<dTodo, toRemove>>
                 ELSE dPc' = "remove" /\ dTodo' = gone /\ toRemove' = gone
    /\ UNCHANGED <<cluster, updated, writeAfterRb, orphanRemoveIssued>>
    /\ DeployFrame

\* removeObsoleteServices, the loop of d.cli.ServiceRemove(ctx, svc.ID).
DeployServiceRemove ==
    /\ InDeploy("remove")
    /\ \E n \in dTodo, ok \in CallOutcomes :
         /\ orphanRemoveIssued' = TRUE
         /\ IF ok
            THEN /\ cluster' = [cluster EXCEPT ![n] = "removing"]
                 /\ NoteWrite
                 /\ dTodo' = dTodo \ {n}
                 /\ dPc' = IF dTodo' = {} THEN "waitRemoval" ELSE "remove"
            ELSE /\ dPc' = "err"
                 /\ UNCHANGED <<cluster, writeAfterRb, dTodo>>
    /\ UNCHANGED <<toRemove, updated>>
    /\ DeployFrame

\* The swarm finishes removing a service marked for removal.
ClusterRemovalCompletes ==
    /\ Alive
    /\ \E n \in Names :
         /\ cluster[n] = "removing"
         /\ cluster' = [cluster EXCEPT ![n] = "absent"]
    /\ UNCHANGED <<outsideApply, optNoWait, optPrune, optAllowLatest, composeSpec, snap, mainPc, dPc, dTodo, toRemove, updated,
                   ctxDone, sigPending, sigSeen, sigPc, deploymentComplete, rbCalls,
                   rbRunning, ret, exitCode, convFailed, convTimeout, deployFailed, writeAfterRb,
                   sigAtComplete, orphanRemoveIssued>>

\* waitForServicesRemoval: returns nil once the inspect of every removed
\* service returned an error (the service is gone, or the call failed), an
\* error when the select finds the context done.
DeployWaitRemoval ==
    /\ InDeploy("waitRemoval")
    /\ \/ ctxDone /\ dPc' = "err"
       \/ \E failed \in SUBSET toRemove :
            /\ \A n \in toRemove \ failed : cluster[n] = "absent"
            /\ dPc' = "pull"
    /\ UNCHANGED <<cluster, dTodo, toRemove, updated, writeAfterRb, orphanRemoveIssued>>
    /\ DeployFrame

\* stack.go:43  d.pullImages.
DeployPullImages == OpaqueStep("pull", "networks")

\* A Deploy that goes from the networks straight to the services.
DeployCreateNetworks_SkipsVolumes == OpaqueStep("networks", "services")

\* stack.go:48  d.createNetworks.
DeployCreateNetworks == OpaqueStep("networks", "volumes")

\* stack.go:53  d.createVolumes; on success the deployServices loop starts.
DeployCreateVolumes ==
    /\ InDeploy("volumes")
    /\ \E ok \in CallOutcomes :
         IF ok THEN dPc' = "services" /\ dTodo' = Manifest
               ELSE dPc' = "err" /\ dTodo' = dTodo
    /\ UNCHANGED <<cluster, toRemove, updated, writeAfterRb, orphanRemoveIssued>>
    /\ DeployFrame

\* deployServices / deployService for one service of the compose file (map
\* iteration order): list, then update-and-wait or create.  "failBefore" is an
\* error before the write, "failAfter" an error of the update wait after it.
DeployService ==
    /\ InDeploy("services")
    /\ \E n \in dTodo, out \in {"failBefore", "ok", "failAfter"} :
         /\ out # "failBefore" => ~ctxDone
         /\ out = "failAfter" => cluster[n] \in {"prev", "new"}
         /\ IF out = "failBefore"
            THEN /\ dPc' = "err"
                 /\ UNCHANGED <<cluster, updated, writeAfterRb, dTodo>>
            ELSE /\ cluster' = [cluster EXCEPT ![n] = "new"]
                 /\ updated' = updated \cup {n}
                 /\ NoteWrite
                 /\ dTodo' = dTodo \ {n}
                 /\ dPc' = IF out = "failAfter" THEN "err"
                           ELSE IF dTodo' = {} THEN "ok" ELSE "services"
    /\ UNCHANGED <<toRemove, orphanRemoveIssued>>
    /\ DeployFrame

MainFrame == UNCHANGED <<outsideApply, optNoWait, optPrune, optAllowLatest, composeSpec, cluster, snap, dTodo, toRemove, updated,
                         ctxDone, sigPending, sigSeen, sigPc, exitCode, writeAfterRb,
                         sigAtComplete, orphanRemoveIssued>>

\* apply.go:148-151  Deploy returned an error: runApply returns it.
DeployReturnErr ==
    /\ InDeploy("err")
    /\ dPc' = "idle"
    /\ deployFailed' = TRUE
    /\ Return("err")
    /\ UNCHANGED <<deploymentComplete, rbCalls, rbRunning, convFailed, convTimeout>>
    /\ MainFrame

\* apply.go:153  Deploy returned nil.
DeployReturnOk ==
    /\ InDeploy("ok")
    /\ dPc' = "idle"
    /\ mainPc' = "deployed"
    /\ UNCHANGED <<deploymentComplete, rbCalls, rbRunning, convFailed, convTimeout, deployFailed, ret>>
    /\ MainFrame

\* apply.go:187-190 (and 157-158)  deploymentComplete <- true; return nil.
MarkComplete ==
    /\ deploymentComplete' = 1
    /\ Return("nil")

\* A runApply that ignores --no-wait and always enters the convergence waits.
AfterDeploy_IgnoresNoWait ==
    /\ Alive /\ mainPc = "deployed"
    /\ IF updated = {}
       THEN MarkComplete
       ELSE mainPc' = "waitUpdates" /\ UNCHANGED <<deploymentComplete, ret>>
    /\ UNCHANGED <<dPc, rbCalls, rbRunning, convFailed, convTimeout, deployFailed>>
    /\ MainFrame

\* apply.go:155-162, 183-185  after a successful Deploy.
AfterDeploy ==
    /\ Alive /\ mainPc = "deployed"
    /\ IF optNoWait \/ updated = {}
       THEN MarkComplete
       ELSE mainPc' = "waitUpdates" /\ UNCHANGED <<deploymentComplete, ret>>
    /\ UNCHANGED <<dPc, rbCalls, rbRunning, convFailed, convTimeout, deployFailed>>
    /\ MainFrame

\* A convergence wait returns nil (not possible once the context is done).
WaitOk(from, to) ==
    /\ Alive /\ mainPc = from /\ ~ctxDone
    /\ mainPc' = to
    /\ UNCHANGED <<dPc, deploymentComplete, rbCalls, rbRunning, convFailed, convTimeout, deployFailed, ret>>
    /\ MainFrame

\* Mutant of WaitFail: the error is returned at once, as after a Deploy error.
WaitFail_ReturnsWithoutRollback(from) ==
    /\ Alive /\ mainPc = from
    /\ convFailed' = TRUE
    /\ convTimeout' \in (IF ctxDone THEN {TRUE} ELSE BOOLEAN)
    /\ Return("err")
    /\ UNCHANGED <<dPc, deploymentComplete, rbCalls, rbRunning, deployFailed>>
    /\ MainFrame

\* A convergence wait returns an error: a failure, or a timeout (its own
\* deadline, or the apply context's); the Rollback call is the next statement.
WaitFail(from) ==
    /\ Alive /\ mainPc = from
    /\ convFailed' = TRUE
    /\ convTimeout' \in (IF ctxDone THEN {TRUE} ELSE BOOLEAN)
    /\ mainPc' = "failed"
    /\ UNCHANGED <<dPc, deploymentComplete, rbCalls, rbRunning, deployFailed, ret>>
    /\ MainFrame

\* apply.go:166  waitForServiceUpdates.
WaitUpdatesOk == WaitOk("waitUpdates", "waitHealthy")

WaitUpdatesFail == WaitFail("waitUpdates")

\* apply.go:176  waitForAllTasksHealthy.
WaitHealthyOk == WaitOk("waitHealthy", "complete")

WaitHealthyFail == WaitFail("waitHealthy")

\* apply.go:168 / 178  snapshot.Rollback(context.Background(), ...) is entered.
MainRollbackBegin ==
    /\ Alive /\ mainPc = "failed"
    /\ mainPc' = "rollback"
    /\ rbCalls' = [rbCalls EXCEPT !["main"] = @ + 1]
    /\ rbRunning' = rbRunning \cup {"main"}
    /\ UNCHANGED <<dPc, deploymentComplete, convFailed, convTimeout, deployFailed, ret>>
    /\ MainFrame

\* apply.go:168-169 / 178-179  Rollback returns; return err.
MainRollbackEnd ==
    /\ Alive /\ mainPc = "rollback"
    /\ cluster' = RollbackEffect(cluster)
    /\ rbRunning' = rbRunning \ {"main"}
    /\ Return("err")
    /\ UNCHANGED <<outsideApply, optNoWait, optPrune, optAllowLatest, composeSpec, snap, dPc, dTodo, toRemove, updated, ctxDone,
                   sigPending, sigSeen, sigPc, deploymentComplete, rbCalls, exitCode,
                   convFailed, convTimeout, deployFailed, writeAfterRb, sigAtComplete,
                   orphanRemoveIssued>>

\* apply.go:182-190  all services healthy.
MainComplete ==
    /\ Alive /\ mainPc = "complete"
    /\ MarkComplete
    /\ UNCHANGED <<dPc, rbCalls, rbRunning, convFailed, convTimeout, deployFailed>>
    /\ MainFrame

\* apply.go:70-81  ExecuteApply: log.Fatalf (exit 1) on error, else the
\* command ends normally.
ExecuteApplyExit ==
    /\ Alive /\ mainPc = "returned"
    /\ exitCode' = IF ret = "nil" THEN 0 ELSE 1
    /\ UNCHANGED <<outsideApply, optNoWait, optPrune, optAllowLatest, composeSpec, cluster, snap, mainPc, dPc, dTodo, toRemove,
                   updated, ctxDone, sigPending, sigSeen, sigPc, deploymentComplete,
                   rbCalls, rbRunning, ret, convFailed, convTimeout, deployFailed, writeAfterRb,
                   sigAtComplete, orphanRemoveIssued>>

\* apply.go:98  the deadline of the apply context fires.  Nothing else ever
\* cancels this context before runApply returns.
CtxDeadline ==
    /\ Alive /\ ~ctxDone /\ mainPc # "returned"
    /\ ctxDone' = TRUE
    /\ UNCHANGED <<outsideApply, optNoWait, optPrune, optAllowLatest, composeSpec, cluster, snap, mainPc, dPc, dTodo, toRemove,
                   updated, sigPending, sigSeen, sigPc, deploymentComplete, rbCalls,
                   rbRunning, ret, exitCode, convFailed, convTimeout, deployFailed, writeAfterRb,
                   sigAtComplete, orphanRemoveIssued>>

SigFrame == UNCHANGED <<outsideApply, optNoWait, optPrune, optAllowLatest, composeSpec, snap, mainPc, dPc, dTodo, toRemove,
                        updated, ctxDone, ret, convFailed, convTimeout, deployFailed, writeAfterRb,
                        orphanRemoveIssued>>

\* apply.go:102-103  an interrupt/termination signal is delivered to sigChan.
SignalArrives ==
    /\ Alive /\ ~sigSeen
    /\ sigSeen' = TRUE
    /\ sigPending' = TRUE
    /\ UNCHANGED <<cluster, sigPc, deploymentComplete, rbCalls, rbRunning, exitCode,
                   sigAtComplete>>
    /\ SigFrame

\* apply.go:132-133  sig := <-sigChan.
HandlerReceive ==
    /\ Alive /\ sigPc = "waiting" /\ sigPending
    /\ sigPending' = FALSE
    /\ sigPc' = "received"
    /\ sigAtComplete' = IF deploymentComplete = 1 THEN "after"
                        ELSE IF ret = "none" THEN "before" ELSE "late"
    /\ UNCHANGED <<cluster, sigSeen, deploymentComplete, rbCalls, rbRunning, exitCode>>
    /\ SigFrame

\* apply.go:136-138  case <-deploymentComplete: os.Exit(0).
HandlerSelectComplete ==
    /\ Alive /\ sigPc = "received" /\ deploymentComplete = 1
    /\ deploymentComplete' = 0
    /\ sigPc' = "done"
    /\ exitCode' = 0
    /\ UNCHANGED <<cluster, sigPending, sigSeen, rbCalls, rbRunning, sigAtComplete>>
    /\ SigFrame

\* apply.go:139-141  default: snapshot.Rollback(context.Background(), ...) is
\* entered.  The apply context is not cancelled.
HandlerSelectDefault ==
    /\ Alive /\ sigPc = "received" /\ deploymentComplete = 0
    /\ sigPc' = "rollback"
    /\ rbCalls' = [rbCalls EXCEPT !["sig"] = @ + 1]
    /\ rbRunning' = rbRunning \cup {"sig"}
    /\ UNCHANGED <<cluster, sigPending, sigSeen, deploymentComplete, exitCode, sigAtComplete>>
    /\ SigFrame

\* apply.go:141  Rollback returns in the handler.
HandlerRollbackEnd ==
    /\ Alive /\ sigPc = "rollback"
    /\ cluster' = RollbackEffect(cluster)
    /\ rbRunning' = rbRunning \ {"sig"}
    /\ sigPc' = "exit130"
    /\ UNCHANGED <<sigPending, sigSeen, deploymentComplete, rbCalls, exitCode, sigAtComplete>>
    /\ SigFrame

\* apply.go:142  os.Exit(130).
HandlerExit ==
    /\ Alive /\ sigPc = "exit130"
    /\ sigPc' = "done"
    /\ exitCode' = 130
    /\ UNCHANGED <<cluster, sigPending, sigSeen, deploymentComplete, rbCalls, rbRunning,
                   sigAtComplete>>
    /\ SigFrame

NextApply ==
    \/ ParseCompose \/ CreateSnapshot \/ SpawnHandler
    \/ DeployRemoveExited \/ DeployObsolete \/ DeployServiceRemove
    \/ ClusterRemovalCompletes \/ DeployWaitRemoval
    \/ DeployPullImages \/ DeployCreateNetworks \/ DeployCreateVolumes
    \/ DeployService \/ DeployReturnErr \/ DeployReturnOk
    \/ AfterDeploy \/ WaitUpdatesOk \/ WaitUpdatesFail
    \/ WaitHealthyOk \/ WaitHealthyFail
    \/ MainRollbackBegin \/ MainRollbackEnd \/ MainComplete
    \/ ExecuteApplyExit \/ CtxDeadline
    \/ SignalArrives \/ HandlerReceive \/ HandlerSelectComplete
    \/ HandlerSelectDefault \/ HandlerRollbackEnd \/ HandlerExit

SpecApply == InitApply /\ [][NextApply]_vars

----------------------------------------------------------------------------
(* waitForServiceUpdate                                                    *)

\* Number of new tasks the swarm creates for the service during one wait.
MaxNewTasks == 3

\* NewStackDeployer's default for MaxFailedTaskCount.
DefaultMaxFailedTaskCount == 3

\* Values of the maxFailedTaskCount argument of NewStackDeployer.
ConfiguredBudgets == {-1, 0, 2}

\* Task ids in the order TaskList returns them.  Task 0 existed before the
\* update; the others are created after it.  (The verdict of a poll does not
\* depend on this order: a poll fails iff the counter reaches the budget by
\* the end of the scan, and the early break of the health scan leaves
\* hasNewRunningTasks false whatever was scanned before.)
TaskIds == 0 .. MaxNewTasks
oldTaskIDs == {0}

\* stack.go:17-26
NewStackDeployer(maxFailedTaskCount) ==
    IF maxFailedTaskCount <= 0 THEN DefaultMaxFailedTaskCount ELSE maxFailedTaskCount

\* A task as the watcher sees it: Status.State, DesiredState, whether
\* Status.Err is non-empty, and its container.  The container is "none"
\* (ContainerStatus.ContainerID empty), "inspectErr" (ContainerInspect
\* fails), "nohealth" (State.Health == nil) or the Health.Status.
Task(st, de, er, co) == [state |-> st, desired |-> de, err |-> er, container |-> co]

Absent == Task("absent", "none", FALSE, "none")
\* every state before running (new, pending, assigned, preparing, starting)
Pending == Task("pending", "running", FALSE, "none")
Containers == {"none", "inspectErr", "nohealth", "starting", "healthy", "unhealthy"}
Running(co) == Task("running", "running", FALSE, co)
Ended == { Task("failed", "shutdown", TRUE, "none"),
           Task("rejected", "shutdown", TRUE, "none"),
           Task("shutdown", "shutdown", TRUE, "none"),
           Task("shutdown", "shutdown", FALSE, "none"),
           Task("complete", "shutdown", FALSE, "none"),
           Task("complete", "running", FALSE, "none") }

InitWatch ==
    /\ cfgMaxFailedTaskCount \in ConfiguredBudgets
    /\ MaxFailedTaskCount = NewStackDeployer(cfgMaxFailedTaskCount)
    /\ tasks = [i \in TaskIds |-> IF i \in oldTaskIDs THEN Running("nohealth") ELSE Absent]
    /\ seenFailedTasks = {}
    /\ newFailedTaskCount = 0
    /\ wPc = "polling"
    /\ wCtxDone = FALSE
    /\ wExpired = FALSE
    /\ ApplyOff /\ MainOff /\ DeployerOff /\ PlannerOff /\ HealthOff /\ MonitorOff /\ StateOff /\ UpdateOff /\ WaitUpdatesOff /\ RemovalOff /\ SubmitOff /\ RetryOff /\ RollbackOff /\ LogsOff /\ StreamsOff

\* The cluster is followed only while the watcher observes it (once the
\* context is done or the timeout has passed it lists the tasks no more)
\* and while deployService sleeps between ServiceUpdate and its second list.
Observed == (wPc = "polling" /\ ~wCtxDone /\ ~wExpired) \/ uPc = "settle"

ClusterFrame == UNCHANGED <<outsideWatch, cfgMaxFailedTaskCount, MaxFailedTaskCount,
                            seenFailedTasks, newFailedTaskCount, wPc, wCtxDone,
                            wExpired>>

\* The swarm creates the next task of the updated service.
TaskAppears ==
    /\ Observed
    /\ \E i \in TaskIds \ oldTaskIDs :
         /\ tasks[i] = Absent
         /\ \A j \in TaskIds \ oldTaskIDs : j < i => tasks[j] # Absent
         /\ tasks' = [tasks EXCEPT ![i] = Pending]
    /\ ClusterFrame

\* A new task starts running, or the health of its container changes.
TaskRuns ==
    /\ Observed
    /\ \E i \in TaskIds \ oldTaskIDs, co \in Containers :
         /\ tasks[i].state \in {"pending", "running"}
         /\ tasks[i] # Running(co)
         /\ tasks' = [tasks EXCEPT ![i] = Running(co)]
    /\ ClusterFrame

\* A new task ends: it fails, is rejected, is shut down or completes.
TaskEnds ==
    /\ Observed
    /\ \E i \in TaskIds \ oldTaskIDs, e \in Ended :
         /\ tasks[i].state \in {"pending", "running"}
         /\ tasks' = [tasks EXCEPT ![i] = e]
    /\ ClusterFrame

\* The swarm shuts an old task down.
OldTaskStops ==
    /\ Observed
    /\ \E i \in oldTaskIDs :
         /\ tasks[i].state = "running"
         /\ tasks' = [tasks EXCEPT ![i] = Task("shutdown", "shutdown", FALSE, "none")]
    /\ ClusterFrame

\* part_001:315  the tasks TaskList returns
currentTasks == {i \in TaskIds : tasks[i] # Absent}

\* A classification that leaves out the tasks that were shut down and
\* replaced.
isFailed_WithoutReplaced(task) ==
    \/ task.state = "failed"
    \/ task.state = "rejected"
    \/ (task.state = "shutdown" /\ task.err)

\* part_001:352-355
isFailed(task) ==
    \/ task.state = "failed"
    \/ task.state = "rejected"
    \/ (task.state = "shutdown" /\ task.err)
    \/ (task.state = "complete" /\ task.desired = "shutdown")

\* A watcher that counts a failed task in every poll that lists it.
CountsAsNew_EveryPoll(id, seen) == TRUE

\* part_001:359  a failed task is counted unless its id was counted before
CountsAsNew(id, seen) == id \notin seen

\* part_001:382  "if we have enough failed new tasks, give up"
BudgetReached(count, max) == count >= max

\* part_001:343-386  the scan for failed new tasks, from task i on: the ids
\* counted, the counter, and whether the scan returned the failure.
RECURSIVE ScanFailed(_, _, _)
ScanFailed(i, seen, count) ==
    IF i > MaxNewTasks THEN [seen |-> seen, count |-> count, giveUp |-> FALSE]
    ELSE IF i \notin currentTasks \/ i \in oldTaskIDs \/ ~isFailed(tasks[i])
         THEN ScanFailed(i + 1, seen, count)
    ELSE LET fresh == CountsAsNew(i, seen)
             seen2 == IF fresh THEN seen \cup {i} ELSE seen
             count2 == IF fresh THEN count + 1 ELSE count
         IN IF BudgetReached(count2, MaxFailedTaskCount)
            THEN [seen |-> seen2, count |-> count2, giveUp |-> TRUE]
            ELSE ScanFailed(i + 1, seen2, count2)

\* A watcher that takes the old tasks for shut down without looking.
oldTasksShutdown_Assumed == TRUE

\* part_001:389-398
oldTasksShutdown ==
    \A i \in currentTasks \cap oldTaskIDs : tasks[i].state # "running"

\* part_001:415-428  does a running new task keep newTasksHealthy true
ContainerPasses(co) ==
    \/ co = "none"                          \* no container id: not inspected
    \/ co = "inspectErr"                    \* inspect error: ignored
    \/ co = "nohealth"                      \* no healthcheck
    \/ co \in {"healthy", "starting"}

\* part_001:401-435  the scan of the new tasks, from task i on, with its
\* break at the first task that is neither running nor complete.
RECURSIVE ScanNew(_, _, _)
ScanNew(i, has, healthy) ==
    IF i > MaxNewTasks THEN [hasNewRunningTasks |-> has, newTasksHealthy |-> healthy]
    ELSE IF i \notin currentTasks \/ i \in oldTaskIDs \/ tasks[i].desired # "running"
         THEN ScanNew(i + 1, has, healthy)
    ELSE IF tasks[i].state = "running"
         THEN ScanNew(i + 1, TRUE, healthy /\ ContainerPasses(tasks[i].container))
    ELSE IF tasks[i].state # "complete"
         THEN [hasNewRunningTasks |-> FALSE, newTasksHealthy |-> healthy]
    ELSE ScanNew(i + 1, has, healthy)

WatchFrame == UNCHANGED <<outsideWatch, cfgMaxFailedTaskCount, MaxFailedTaskCount, tasks,
                          wCtxDone, wExpired>>

WatchClockFrame == UNCHANGED <<outsideWatch, cfgMaxFailedTaskCount, MaxFailedTaskCount, tasks,
                               seenFailedTasks, newFailedTaskCount, wPc>>

\* The context handed to waitForServiceUpdate is cancelled or reaches its
\* deadline.
WatchCtxDone ==
    /\ wPc = "polling" /\ ~wCtxDone
    /\ wCtxDone' = TRUE
    /\ wExpired' = wExpired
    /\ WatchClockFrame

\* part_001:296-297  five minutes have passed since start.
WatchDeadlinePasses ==
    /\ wPc = "polling" /\ ~wExpired
    /\ wExpired' = TRUE
    /\ wCtxDone' = wCtxDone
    /\ WatchClockFrame

\* part_001:303-307  ctx.Done() is closed at the top of an iteration.
PollCtxDone ==
    /\ wPc = "polling" /\ wCtxDone
    /\ wPc' = "cancelled"
    /\ UNCHANGED <<seenFailedTasks, newFailedTaskCount>>
    /\ WatchFrame

\* part_001:310-312  five minutes have passed since the wait began.
PollTimeout ==
    /\ wPc = "polling" /\ ~wCtxDone /\ wExpired
    /\ wPc' = "timeout"
    /\ UNCHANGED <<seenFailedTasks, newFailedTaskCount>>
    /\ WatchFrame

\* part_001:315-322  TaskList fails.
PollListErr ==
    /\ wPc = "polling" /\ ~wCtxDone /\ ~wExpired
    /\ wPc' = "listErr"
    /\ UNCHANGED <<seenFailedTasks, newFailedTaskCount>>
    /\ WatchFrame

\* An iteration that lists the tasks without looking at the context or the
\* clock first.
Poll_SkipsDeadlineChecks ==
    /\ wPc = "polling"
    /\ LET f == ScanFailed(0, seenFailedTasks, newFailedTaskCount)
           h == ScanNew(0, FALSE, TRUE)
       IN /\ seenFailedTasks' = f.seen
          /\ newFailedTaskCount' = f.count
          /\ wPc' = IF f.giveUp THEN "failed"
                    ELSE IF oldTasksShutdown /\ h.hasNewRunningTasks /\ h.newTasksHealthy
                         THEN "completed"
                    ELSE "polling"
    /\ WatchFrame

\* An iteration that also shuts the old tasks down itself.
Poll_StopsOldTasks ==
    /\ wPc = "polling" /\ ~wCtxDone /\ ~wExpired
    /\ LET f == ScanFailed(0, seenFailedTasks, newFailedTaskCount)
           h == ScanNew(0, FALSE, TRUE)
       IN /\ seenFailedTasks' = f.seen
          /\ newFailedTaskCount' = f.count
          /\ wPc' = IF f.giveUp THEN "failed"
                    ELSE IF oldTasksShutdown /\ h.hasNewRunningTasks /\ h.newTasksHealthy
                         THEN "completed"
                    ELSE "polling"
    /\ tasks' = [i \in TaskIds |->
                   IF i \in oldTaskIDs THEN Task("shutdown", "shutdown", FALSE, "none")
                   ELSE tasks[i]]
    /\ UNCHANGED <<outsideWatch, cfgMaxFailedTaskCount, MaxFailedTaskCount, wCtxDone,
                   wExpired>>

\* part_001:315-443  one iteration whose TaskList succeeds.
Poll ==
    /\ wPc = "polling" /\ ~wCtxDone /\ ~wExpired
    /\ LET f == ScanFailed(0, seenFailedTasks, newFailedTaskCount)
           h == ScanNew(0, FALSE, TRUE)
       IN /\ seenFailedTasks' = f.seen
          /\ newFailedTaskCount' = f.count
          /\ wPc' = IF f.giveUp THEN "failed"
                    ELSE IF oldTasksShutdown /\ h.hasNewRunningTasks /\ h.newTasksHealthy
                         THEN "completed"
                    ELSE "polling"
    /\ WatchFrame

NextWatch ==
    \/ TaskAppears \/ TaskRuns \/ TaskEnds \/ OldTaskStops
    \/ WatchCtxDone \/ WatchDeadlinePasses
    \/ PollCtxDone \/ PollTimeout \/ PollListErr \/ Poll

SpecWatch == InitWatch /\ [][NextWatch]_vars

\* swarm.TaskState values, and the desired states the orchestrator sets.
TaskStates == {"new", "pending", "assigned", "accepted", "preparing", "starting",
               "running", "complete", "shutdown", "failed", "rejected"}
DesiredStates == {"running", "shutdown"}

\* Every combination of Status.State, DesiredState and Status.Err a listed
\* task can show; a container (without healthcheck) for the running ones.
TaskShapes ==
    {Task(st, de, er, IF st = "running" THEN "nohealth" ELSE "none") :
       st \in TaskStates, de \in DesiredStates, er \in BOOLEAN}

\* One iteration over an arbitrary task list: an old task and a new task of
\* any shape, and possibly a second new task that failed.
InitClassify ==
    /\ cfgMaxFailedTaskCount \in ConfiguredBudgets
    /\ MaxFailedTaskCount = NewStackDeployer(cfgMaxFailedTaskCount)
    /\ \E old \in TaskShapes, new \in TaskShapes,
          more \in {Absent, Task("failed", "shutdown", TRUE, "none")} :
         tasks = [i \in TaskIds |-> IF i = 0 THEN old ELSE IF i = 1 THEN new
                                    ELSE IF i = 2 THEN more ELSE Absent]
    /\ seenFailedTasks = {}
    /\ newFailedTaskCount = 0
    /\ wPc = "polling"
    /\ wCtxDone = FALSE
    /\ wExpired = FALSE
    /\ ApplyOff /\ MainOff /\ DeployerOff /\ PlannerOff /\ HealthOff /\ MonitorOff /\ StateOff /\ UpdateOff /\ WaitUpdatesOff /\ RemovalOff /\ SubmitOff /\ RetryOff /\ RollbackOff /\ LogsOff /\ StreamsOff

NextClassify == Poll

\* The iteration is carried out.
SpecClassify == InitClassify /\ [][NextClassify]_vars /\ WF_vars(Poll)

\* part_001:302-444  one iteration of the loop, whatever its outcome.
WatchIteration == PollCtxDone \/ PollTimeout \/ PollListErr \/ Poll

\* The clock runs on, and the loop goes on iterating (its API calls return
\* and its two-second sleep ends).
SpecWatchLive ==
    SpecWatch /\ WF_vars(WatchDeadlinePasses) /\ WF_vars(WatchIteration)

----------------------------------------------------------------------------
(* main() of main.go, with waitHealthy and rollback                        *)

\* waitHealthTimeout (10 minutes) in ticks of the model's clock.
waitHealthTimeout == 2

\* compose.Services: the services of the compose file.
composeServices == {"web", "api"}

ServiceSpec(img, n) == [image |-> img, replicas |-> n]
NoService == ServiceSpec("none", 0)

\* main.go:154-190  the spec built from the compose file.
buildSpec(name) == ServiceSpec("v2", 2)

\* compose.Networks: the networks of the compose file.
composeNetworks == {"default", "backend"}

\* Stack names main() is started with.
StackNames == {"app", "shop"}

\* fmt.Sprintf("%s_%s", stack, name)
Sprintf(stk, name) == stk \o "_" \o name

\* main.go:102-108  what NetworkCreate is called with: the name and the
\* value of the com.docker.stack.namespace label.
NetworkCreateRequest(stk, name) ==
    [name |-> Sprintf(stk, name), namespace |-> stk]

\* A buildSpec that names the service by its local name only.
buildSpecAnnotations_LocalName(stk, name) ==
    [name |-> name, namespace |-> stk]

\* main.go:117-118, 156-161  Annotations of the spec buildSpec returns for
\* serviceName = Sprintf(stack, name): the name and the namespace label.
buildSpecAnnotations(stk, name) ==
    [name |-> Sprintf(stk, name), namespace |-> stk]

\* An object main() created, as recorded in mCreated.
Created(kind, local, req) ==
    [kind |-> kind, local |-> local, name |-> req.name, namespace |-> req.namespace]

\* What a service of the stack can look like before main() runs.
PreviousSpecs == {NoService, ServiceSpec("v1", 1), ServiceSpec("v1", 2)}

InitMain ==
    /\ mCluster \in [composeServices -> PreviousSpecs]
    /\ pre = mCluster
    /\ prevImages = [n \in composeServices |-> "none"]
    /\ now = 0
    /\ mPc = "networks"
    /\ mTodo = composeServices
    /\ stack \in StackNames
    /\ mNetworks \in SUBSET {Sprintf(stack, n) : n \in composeNetworks}
    /\ nTodo = composeNetworks
    /\ mCreated = {}
    /\ wStart = 0
    /\ failCause = "none"
    /\ rbAllOk = TRUE
    /\ rbExpiredCall = FALSE
    /\ ApplyOff /\ WatchOff /\ DeployerOff /\ PlannerOff /\ HealthOff /\ MonitorOff /\ StateOff /\ UpdateOff /\ WaitUpdatesOff /\ RemovalOff /\ SubmitOff /\ RetryOff /\ RollbackOff /\ LogsOff /\ StreamsOff

\* main.go:71  ctx carries a deadline waitHealthTimeout after its creation.
CtxExpired == now >= waitHealthTimeout

\* A docker call under ctx: it can fail for any reason and always fails once
\* the deadline has passed.
CallResults == IF CtxExpired THEN {FALSE} ELSE BOOLEAN

\* Time passes while main() runs.
Tick ==
    /\ mPc \in {"networks", "services", "waitList", "waitCheck", "rollback"}
    /\ now <= waitHealthTimeout
    /\ now' = now + 1
    /\ UNCHANGED <<outsideMain, stack, mNetworks, nTodo, mCreated, mCluster, pre, prevImages, mPc, mTodo, wStart,
                   failCause, rbAllOk, rbExpiredCall>>

\* main.go:97-113  one iteration of the networks loop: a network whose
\* inspect fails is created.
MainNetwork ==
    /\ mPc = "networks"
    /\ \E name \in nTodo, inspOk \in CallResults, createOk \in CallResults :
         LET req == NetworkCreateRequest(stack, name)
         IN /\ nTodo' = nTodo \ {name}
            /\ IF (inspOk /\ req.name \in mNetworks) \/ ~createOk \/ req.name \in mNetworks
               THEN UNCHANGED <<mNetworks, mCreated>>
               ELSE /\ mNetworks' = mNetworks \cup {req.name}
                    /\ mCreated' = mCreated \cup {Created("network", name, req)}
    /\ UNCHANGED <<outsideMain, stack, mCluster, pre, prevImages, now, mPc, mTodo, wStart,
                   failCause, rbAllOk, rbExpiredCall>>

\* main.go:113-116  the networks loop is over.
EnterServices ==
    /\ mPc = "networks" /\ nTodo = {}
    /\ mPc' = "services"
    /\ UNCHANGED <<outsideMain, stack, mNetworks, nTodo, mCreated, mCluster, pre, prevImages,
                   now, mTodo, wStart, failCause, rbAllOk, rbExpiredCall>>

\* main.go:116-138  one iteration of the create-or-update loop.
MainService ==
    /\ mPc = "services"
    /\ \E name \in mTodo, inspOk \in CallResults, writeOk \in CallResults :
         /\ mTodo' = mTodo \ {name}
         /\ IF inspOk /\ mCluster[name] # NoService
            THEN /\ prevImages' = [prevImages EXCEPT ![name] = mCluster[name].image]
                 /\ mCluster' = IF writeOk
                                THEN [mCluster EXCEPT ![name] = buildSpec(name)]
                                ELSE mCluster
            ELSE /\ prevImages' = prevImages
                 /\ mCluster' = IF writeOk /\ mCluster[name] = NoService
                                THEN [mCluster EXCEPT ![name] = buildSpec(name)]
                                ELSE mCluster
         /\ mCreated' = IF ~(inspOk /\ mCluster[name] # NoService)
                           /\ writeOk /\ mCluster[name] = NoService
                        THEN mCreated \cup
                             {Created("service", name, buildSpecAnnotations(stack, name))}
                        ELSE mCreated
    /\ UNCHANGED <<outsideMain, stack, mNetworks, nTodo, pre, now, mPc, wStart, failCause, rbAllOk, rbExpiredCall>>

\* main.go:140-142, 228  the loop is over; waitHealthy is entered.
EnterWaitHealthy ==
    /\ mPc = "services" /\ mTodo = {}
    /\ mPc' = "waitList"
    /\ wStart' = now
    /\ UNCHANGED <<outsideMain, stack, mNetworks, nTodo, mCreated, mCluster, pre, prevImages, now, mTodo, failCause,
                   rbAllOk, rbExpiredCall>>

\* main.go:142-144  waitHealthy returned false: rollback(ctx, cli, prevImages).
EnterRollback(cause) ==
    /\ mPc' = "rollback"
    /\ failCause' = cause
    /\ mTodo' = {n \in composeServices : prevImages[n] # "none"}

\* main.go:230-255  ContainerList and the scan of the stack's containers.
WaitList ==
    /\ mPc = "waitList"
    /\ \E listOk \in CallResults, allHealthy \in BOOLEAN :
         IF ~listOk
         THEN EnterRollback(IF CtxExpired THEN "deadline" ELSE "listErr")
         ELSE /\ mPc' = IF allHealthy THEN "done" ELSE "waitCheck"
              /\ UNCHANGED <<failCause, mTodo>>
    /\ UNCHANGED <<outsideMain, stack, mNetworks, nTodo, mCreated, mCluster, pre, prevImages, now, wStart, rbAllOk,
                   rbExpiredCall>>

\* main.go:256-259  the watcher's own timeout, else sleep and poll again.
WaitCheck ==
    /\ mPc = "waitCheck"
    /\ IF now - wStart > waitHealthTimeout
       THEN EnterRollback("deadline")
       ELSE mPc' = "waitList" /\ UNCHANGED <<failCause, mTodo>>
    /\ UNCHANGED <<outsideMain, stack, mNetworks, nTodo, mCreated, mCluster, pre, prevImages, now, wStart, rbAllOk,
                   rbExpiredCall>>

\* main.go:211-223  one iteration of rollback's loop over the old images.
RollbackService ==
    /\ mPc = "rollback"
    /\ \E svc \in mTodo, inspOk \in CallResults, updOk \in CallResults :
         /\ mTodo' = mTodo \ {svc}
         /\ rbExpiredCall' = (rbExpiredCall \/ CtxExpired)
         /\ IF inspOk /\ updOk
            THEN /\ mCluster' = [mCluster EXCEPT ![svc].image = prevImages[svc]]
                 /\ rbAllOk' = rbAllOk
            ELSE /\ mCluster' = mCluster
                 /\ rbAllOk' = FALSE
    /\ UNCHANGED <<outsideMain, stack, mNetworks, nTodo, mCreated, pre, prevImages, now, mPc, wStart, failCause>>

\* main.go:145  os.Exit(1) after rollback returned.
ExitAfterRollback ==
    /\ mPc = "rollback" /\ mTodo = {}
    /\ mPc' = "exit1"
    /\ UNCHANGED <<outsideMain, stack, mNetworks, nTodo, mCreated, mCluster, pre, prevImages, now, mTodo, wStart,
                   failCause, rbAllOk, rbExpiredCall>>

NextMain ==
    \/ Tick \/ MainNetwork \/ EnterServices \/ MainService \/ EnterWaitHealthy \/ WaitList \/ WaitCheck
    \/ RollbackService \/ ExitAfterRollback

SpecMain == InitMain /\ [][NextMain]_vars

----------------------------------------------------------------------------
(* StackDeployer.Deploy: the services it removes, updates and creates      *)

\* d.stackName
stackName == "app"

\* fmt.Sprintf("%s_%s", d.stackName, name), as the sequence of its parts.
FullName(name) == <<stackName, "_", name>>

\* Service names that can exist in the swarm: the two a manifest can name,
\* and one that merely starts with "app_web".
ServiceNames == {FullName("web"), FullName("db"), FullName("web") \o <<"2">>}

\* Value of the com.docker.stack.namespace label of a service: this stack,
\* another stack, or "" for a service without the label.
NamespaceLabels == {stackName, "other", ""}

IsPrefix(p, s) == Len(p) <= Len(s) /\ SubSeq(s, 1, Len(p)) = p

InitDeployer ==
    /\ svcs \in [ServiceNames -> NamespaceLabels \cup {"absent"}]
    /\ svcsBefore = svcs
    /\ sdServices \in {{"web"}, {"web", "db"}}
    /\ sdTodo = sdServices
    /\ sdPc = "obsolete"
    /\ sdUpdated = {}
    /\ sdRemoved = {}
    /\ sdCreated = {}
    /\ ApplyOff /\ WatchOff /\ MainOff /\ PlannerOff /\ HealthOff /\ MonitorOff /\ StateOff /\ UpdateOff /\ WaitUpdatesOff /\ RemovalOff /\ SubmitOff /\ RetryOff /\ RollbackOff /\ LogsOff /\ StreamsOff

\* part_001:277-284  ServiceList filtered by label
\* com.docker.stack.namespace=<stackName>.
GetStackServices == {n \in ServiceNames : svcs[n] = stackName}

\* part_001:181-186  ServiceList filtered by name: the daemon returns every
\* service whose name is the filter value or starts with it.
ServiceListByName(filter) ==
    {n \in ServiceNames : svcs[n] # "absent" /\ IsPrefix(filter, n)}

\* part_001:17-67  removeObsoleteServices: the services of the stack that
\* the manifest does not name are removed, up to the first error.
SdRemoveObsoleteServices ==
    /\ sdPc = "obsolete"
    /\ LET desiredServices == {FullName(name) : name \in sdServices}
           servicesToRemove == {n \in GetStackServices : n \notin desiredServices}
       IN \E gone \in SUBSET servicesToRemove :
            /\ svcs' = [n \in ServiceNames |-> IF n \in gone THEN "absent" ELSE svcs[n]]
            /\ sdRemoved' = gone
            /\ sdPc' \in (IF gone = servicesToRemove THEN {"services", "err"} ELSE {"err"})
    /\ UNCHANGED <<outsideDeployer, svcsBefore, sdServices, sdTodo, sdUpdated, sdCreated>>

\* The daemon accepts a ServiceUpdate only if the spec keeps the service's
\* name (a service cannot be renamed).
UpdateAccepted(existing, fullName) == existing = fullName

\* part_001:160-274  deployService for one service of the manifest: the
\* first service of the name-filtered list is updated, and only when the
\* list is empty the service is created.
SdDeployService ==
    /\ sdPc = "services" /\ sdTodo # {}
    /\ \E name \in sdTodo, out \in {"listErr", "writeErr", "waitErr", "ok"} :
         LET fullName == FullName(name)
             existingServices == ServiceListByName(fullName)
             next == IF out = "ok"
                     THEN (IF sdTodo \ {name} = {} THEN "done" ELSE "services")
                     ELSE "err"
         IN /\ sdTodo' = sdTodo \ {name}
            /\ IF out = "listErr"
               THEN /\ sdPc' = "err"
                    /\ UNCHANGED <<svcs, sdUpdated, sdCreated>>
               ELSE IF existingServices # {}
               THEN \E existing \in existingServices :
                      IF out = "writeErr" \/ ~UpdateAccepted(existing, fullName)
                      THEN /\ sdPc' = "err"
                           /\ UNCHANGED <<svcs, sdUpdated, sdCreated>>
                      ELSE /\ svcs' = [svcs EXCEPT ![existing] = stackName]
                           /\ sdUpdated' = sdUpdated \cup {existing}
                           /\ sdPc' = next
                           /\ UNCHANGED sdCreated
               ELSE IF out = "writeErr"
                    THEN /\ sdPc' = "err"
                         /\ UNCHANGED <<svcs, sdUpdated, sdCreated>>
                    ELSE /\ out = "ok"
                         /\ svcs' = [svcs EXCEPT ![fullName] = stackName]
                         /\ sdCreated' = sdCreated \cup {fullName}
                         /\ sdPc' = next
                         /\ UNCHANGED sdUpdated
    /\ UNCHANGED <<outsideDeployer, svcsBefore, sdServices, sdRemoved>>

NextDeployer == SdRemoveObsoleteServices \/ SdDeployService

SpecDeployer == InitDeployer /\ [][NextDeployer]_vars

----------------------------------------------------------------------------
(* Planner.CreatePlan                                                      *)

ResourceKinds == {"networks", "volumes", "configs", "secrets"}
Kinds == ResourceKinds \cup {"services"}

\* Local names, in alphabetical order.
NameOrder == <<"api", "data", "web">>
ServiceLocalNames == {"api", "web"}
ResourceLocalNames == {"data"}
NamesOf(kind) == IF kind = "services" THEN ServiceLocalNames ELSE ResourceLocalNames

\* swarm.Service of a current service: image and replicas of its spec.
CurrentService == [image |-> "v1", replicas |-> 1]

\* compose.Service of a desired service: its image, whether it has a deploy
\* section, and the replicas of that section.
ComposeService(img, hasDeploy, n) == [image |-> img, deploy |-> hasDeploy, replicas |-> n]
DesiredServices ==
    {ComposeService(img, FALSE, 0) : img \in {"v1", "v2"}} \cup
    {ComposeService(img, TRUE, n) : img \in {"v1", "v2"}, n \in {1, 2}}

InitPlanner ==
    /\ \E cs \in SUBSET ServiceLocalNames, cn, cv, cc, cx \in SUBSET ResourceLocalNames :
         pCurrent = [networks |-> cn, volumes |-> cv, configs |-> cc, secrets |-> cx,
                     services |-> cs]
    /\ \E ds \in SUBSET ServiceLocalNames, dn, dv, dc, dx \in SUBSET ResourceLocalNames :
         pDesired = [networks |-> dn, volumes |-> dv, configs |-> dc, secrets |-> dx,
                     services |-> ds]
    /\ pDesiredSvc \in [ServiceLocalNames -> DesiredServices]
    /\ \A n \in ServiceLocalNames \ pDesired["services"] :
         pDesiredSvc[n] = ComposeService("v1", FALSE, 0)
    /\ plan = [k \in Kinds |-> <<>>]
    /\ plan2 = [k \in Kinds |-> <<>>]
    /\ pPc = "start"
    /\ pClientCalls = 0
    /\ ApplyOff /\ WatchOff /\ MainOff /\ DeployerOff /\ HealthOff /\ MonitorOff /\ StateOff /\ UpdateOff /\ WaitUpdatesOff /\ RemovalOff /\ SubmitOff /\ RetryOff /\ RollbackOff /\ LogsOff /\ StreamsOff

\* The orders in which a range over a map with key set S can visit it.
RangeOrders(S) ==
    {o \in [1 .. Cardinality(S) -> S] : \A i, j \in 1 .. Cardinality(S) : o[i] = o[j] => i = j}

Action(name, verb) == [name |-> name, action |-> verb]

\* part_002:252-285
compareServices(current, desired) ==
    LET c1 == IF current.image # desired.image THEN <<"image">> ELSE <<>>
        c2 == IF desired.deploy /\ desired.replicas # current.replicas
              THEN Append(c1, "replicas") ELSE c1
    IN IF Len(c2) = 0 THEN Append(c2, "configuration") ELSE c2

\* part_002:52-72 (93-111, 131-150, 171-190)  the first loop of a resource
\* planner, over the desired map visited in the order o.
RECURSIVE ResourceCreates(_, _, _)
ResourceCreates(cur, o, i) ==
    IF i > Len(o) THEN <<>>
    ELSE <<Action(o[i], IF o[i] \in cur THEN "none" ELSE "create")>>
         \o ResourceCreates(cur, o, i + 1)

\* part_002:75-83 (114-121, 153-161, 193-201, 238-246)  the second loop,
\* over the current map visited in the order o.
RECURSIVE Deletes(_, _, _)
Deletes(des, o, i) ==
    IF i > Len(o) THEN <<>>
    ELSE (IF o[i] \notin des THEN <<Action(o[i], "delete")>> ELSE <<>>)
         \o Deletes(des, o, i + 1)

\* A resource planner that leaves out the loop over the current map.
planResources_NoDeletes(cur, des, o1, o2) == ResourceCreates(cur, o1, 1)

\* part_002:48-204  planNetworks, planVolumes, planConfigs and planSecrets
\* have the same two loops.
planResources(cur, des, o1, o2) == ResourceCreates(cur, o1, 1) \o Deletes(des, o2, 1)

\* part_002:211-235  the first loop of planServices.
RECURSIVE ServiceCreates(_, _, _)
ServiceCreates(cur, o, i) ==
    IF i > Len(o) THEN <<>>
    ELSE <<Action(o[i],
                  IF o[i] \in cur
                  THEN (IF Len(compareServices(CurrentService, pDesiredSvc[o[i]])) > 0
                        THEN "update" ELSE "none")
                  ELSE "create")>>
         \o ServiceCreates(cur, o, i + 1)

\* part_002:207-249
planServices(cur, des, o1, o2) == ServiceCreates(cur, o1, 1) \o Deletes(des, o2, 1)

\* The action lists one planner can return for a kind: one for each order in
\* which its two range loops visit the desired and the current map.
PlansOf(kind) ==
    {IF kind = "services"
     THEN planServices(pCurrent[kind], pDesired[kind], o1, o2)
     ELSE planResources(pCurrent[kind], pDesired[kind], o1, o2) :
     o1 \in RangeOrders(pDesired[kind]), o2 \in RangeOrders(pCurrent[kind])}

\* part_002:24-45  every Plan CreatePlan can return for the two states.
PossiblePlans ==
    {[networks |-> n, volumes |-> v, configs |-> c, secrets |-> x, services |-> sv] :
     n \in PlansOf("networks"), v \in PlansOf("volumes"), c \in PlansOf("configs"),
     x \in PlansOf("secrets"), sv \in PlansOf("services")}

\* A CreatePlan that lists the services again and drops from current those
\* it plans to delete.
CreatePlan_RefreshesCurrent ==
    /\ pPc = "start"
    /\ plan' \in PossiblePlans
    /\ pPc' = "planned"
    /\ pClientCalls' = pClientCalls + 1
    /\ pCurrent' = [pCurrent EXCEPT !["services"] = @ \cap pDesired["services"]]
    /\ UNCHANGED <<outsidePlanner, pDesired, pDesiredSvc, plan2>>

\* part_002:24-45  CreatePlan(ctx, current, desired): ctx and p.client are
\* not used, current and desired are only read.
CreatePlan ==
    /\ pPc = "start"
    /\ plan' \in PossiblePlans
    /\ pPc' = "planned"
    /\ UNCHANGED <<outsidePlanner, pCurrent, pDesired, pDesiredSvc, plan2, pClientCalls>>

\* A second CreatePlan call with the same arguments.
CreatePlanAgain ==
    /\ pPc = "planned"
    /\ plan2' \in PossiblePlans
    /\ pPc' = "replanned"
    /\ UNCHANGED <<outsidePlanner, pCurrent, pDesired, pDesiredSvc, plan, pClientCalls>>

NextPlanner == CreatePlan \/ CreatePlanAgain

SpecPlanner == InitPlanner /\ [][NextPlanner]_vars

----------------------------------------------------------------------------
(* waitForAllTasksHealthy                                                  *)

\* Number of tasks TaskList returns for one service.
MaxServiceTasks == 2

TaskSlots == 1 .. MaxServiceTasks

\* A task of the list: whether its Version.Index is below the service's
\* ("old") or not ("current"), its Status.State, and its container: "none"
\* (no ContainerID), "inspectErr", "nohealth" or the Health.Status.
HTask(ver, st, co) == [version |-> ver, state |-> st, container |-> co]
NoTask == HTask("none", "none", "none")
HTaskShapes ==
    { NoTask,
      HTask("old", "starting", "none"),
      HTask("current", "starting", "none"),
      HTask("current", "running", "none"),
      HTask("current", "running", "inspectErr"),
      HTask("current", "running", "nohealth"),
      HTask("current", "running", "healthy"),
      HTask("current", "running", "starting") }

\* What TaskList returns for a service: an error, or its tasks.
Listed(ts) == [ok |-> TRUE, tasks |-> ts]
ListErr == [ok |-> FALSE, tasks |-> [i \in TaskSlots |-> NoTask]]

InitHealth ==
    /\ updatedServices \in {{"a"}, {"a", "b"}}
    /\ hTasks \in [{"a", "b"} -> {ListErr} \cup {Listed(ts) : ts \in [TaskSlots -> HTaskShapes]}]
    /\ \A svc \in {"a", "b"} \ updatedServices : hTasks[svc] = ListErr
    /\ hCtxDone = FALSE
    /\ hPc = "waiting"
    /\ ApplyOff /\ WatchOff /\ MainOff /\ DeployerOff /\ PlannerOff /\ MonitorOff /\ StateOff /\ UpdateOff /\ WaitUpdatesOff /\ RemovalOff /\ SubmitOff /\ RetryOff /\ RollbackOff /\ LogsOff /\ StreamsOff

\* apply.go:227-234  TaskList under ctx: it fails once ctx is done.
TaskListOk(svc) == ~hCtxDone /\ hTasks[svc].ok

\* A health check that lets a container that is still starting pass.
HealthPasses_AllowsStarting(status) == status \in {"healthy", "starting"}

\* apply.go:261  containerInfo.State.Health.Status == "healthy"
HealthPasses(status) == status = "healthy"

\* apply.go:237-272  the scan of one service's tasks from slot i on, carrying
\* allHealthy and serviceHealthy.
RECURSIVE ScanServiceTasks(_, _, _, _)
ScanServiceTasks(svc, i, allHealthy, serviceHealthy) ==
    IF i > MaxServiceTasks
    THEN [allHealthy |-> allHealthy, serviceHealthy |-> serviceHealthy]
    ELSE LET t == hTasks[svc].tasks[i]
         IN IF t = NoTask \/ t.version = "old"
            THEN ScanServiceTasks(svc, i + 1, allHealthy, serviceHealthy)
            ELSE IF t.state # "running"
            THEN ScanServiceTasks(svc, i + 1, FALSE, serviceHealthy)
            ELSE IF t.container = "none"
            THEN ScanServiceTasks(svc, i + 1, allHealthy, serviceHealthy)
            ELSE IF t.container = "inspectErr"
            THEN ScanServiceTasks(svc, i + 1, FALSE, serviceHealthy)
            ELSE IF t.container = "nohealth"
            THEN ScanServiceTasks(svc, i + 1, allHealthy, TRUE)
            ELSE IF HealthPasses(t.container)
            THEN ScanServiceTasks(svc, i + 1, allHealthy, TRUE)
            ELSE ScanServiceTasks(svc, i + 1, FALSE, serviceHealthy)

\* apply.go:222-277  what one service contributes to allHealthy.
ServicePasses(svc) ==
    /\ TaskListOk(svc)
    /\ LET r == ScanServiceTasks(svc, 1, TRUE, FALSE)
       IN r.allHealthy /\ r.serviceHealthy

HealthFrame == UNCHANGED <<outsideHealth, updatedServices, hTasks>>

\* The deadline of the wait's context fires.
HealthCtxDeadline ==
    /\ hPc = "waiting" /\ ~hCtxDone
    /\ hCtxDone' = TRUE
    /\ hPc' = hPc
    /\ HealthFrame

\* apply.go:214-216  select takes <-ctx.Done().
HealthReturnTimeout ==
    /\ hPc = "waiting" /\ hCtxDone
    /\ hPc' = "timeout"
    /\ hCtxDone' = hCtxDone
    /\ HealthFrame

\* apply.go:218-286  select takes <-ticker.C (also possible when ctx is
\* done, as select picks among the ready cases): one poll.
HealthTick ==
    /\ hPc = "waiting"
    /\ hPc' = IF \A svc \in updatedServices : ServicePasses(svc) THEN "ok" ELSE "waiting"
    /\ hCtxDone' = hCtxDone
    /\ HealthFrame

\* Between two polls the cluster moves on: the task list of an updated
\* service starts or stops failing, or one of its tasks changes.
HealthClusterChange ==
    /\ hPc = "waiting"
    /\ \E svc \in updatedServices :
         \/ /\ hTasks[svc].ok
            /\ hTasks' = [hTasks EXCEPT ![svc] = ListErr]
         \/ /\ hTasks[svc].ok
            /\ \E i \in TaskSlots, t \in HTaskShapes :
                 hTasks' = [hTasks EXCEPT ![svc] = Listed([@.tasks EXCEPT ![i] = t])]
         \/ /\ ~hTasks[svc].ok
            /\ \E ts \in [TaskSlots -> {NoTask, HTask("current", "starting", "none")}] :
                 hTasks' = [hTasks EXCEPT ![svc] = Listed(ts)]
    /\ UNCHANGED <<outsideHealth, updatedServices, hCtxDone, hPc>>

NextHealth ==
    HealthCtxDeadline \/ HealthReturnTimeout \/ HealthTick \/ HealthClusterChange

SpecHealth == InitHealth /\ [][NextHealth]_vars

----------------------------------------------------------------------------
(* HealthMonitor.WaitHealthy                                               *)

\* Number of tasks the stack's services hold together.
MaxStackTasks == 3

\* part_010:30  the default NewHealthMonitor puts in place of a budget <= 0.
MonitorDefaultMaxFailedTaskCount == 3

\* part_010:28-37
NewHealthMonitor(maxFailedTaskCount) ==
    IF maxFailedTaskCount <= 0 THEN MonitorDefaultMaxFailedTaskCount
    ELSE maxFailedTaskCount

\* The services ServiceList can return for the stack's label, in the order
\* of the returned slice.
MonitorServices == <<"a", "b">>

\* A task as WaitHealthy reads it.  state: "failed" (failed, rejected, or
\* shutdown with an error), "skipped" (not running, not desired running, or
\* without a ContainerID) or "running"; container, for a running task: what
\* ContainerInspect gives: "inspectErr", "exited" (State.Status is not
\* running), "nohealth" (State.Health is nil) or the Health.Status.
MTask(svc, st, co) == [service |-> svc, state |-> st, container |-> co]

InspectResults == <<"inspectErr", "exited", "nohealth", "healthy", "starting", "unhealthy">>

\* Every task shape, in the order the task list is kept in.
MTaskOrder ==
    LET shapes(svc) ==
          <<MTask(svc, "failed", "none"), MTask(svc, "skipped", "none")>>
          \o [i \in 1 .. Len(InspectResults) |-> MTask(svc, "running", InspectResults[i])]
    IN shapes(MonitorServices[1]) \o shapes(MonitorServices[2])

MTaskShapes == {MTaskOrder[i] : i \in 1 .. Len(MTaskOrder)}

TaskRank(t) == CHOOSE i \in 1 .. Len(MTaskOrder) : MTaskOrder[i] = t

\* The outcome of WaitHealthy does not depend on the order of a task list,
\* so the cluster's tasks are kept in one order.
TasksSorted(ts) ==
    \A i \in 1 .. Len(ts) - 1 : TaskRank(ts[i]) <= TaskRank(ts[i + 1])

ClusterTasks ==
    {ts \in UNION {[1 .. n -> MTaskShapes] : n \in 0 .. MaxStackTasks} : TasksSorted(ts)}

InsertTask(ts, t) ==
    LET k == Cardinality({i \in 1 .. Len(ts) : TaskRank(ts[i]) <= TaskRank(t)})
    IN SubSeq(ts, 1, k) \o <<t>> \o SubSeq(ts, k + 1, Len(ts))

RemoveTask(ts, i) == SubSeq(ts, 1, i - 1) \o SubSeq(ts, i + 1, Len(ts))

\* time.Since(start), by the thresholds the code compares it with.
ElapsedOrder == <<"start", "over30s", "over2min", "overWaitHealthTimeout">>
ElapsedRank(e) == CHOOSE i \in 1 .. Len(ElapsedOrder) : ElapsedOrder[i] = e
Since(threshold) == ElapsedRank(mhElapsed) >= ElapsedRank(threshold)

InitMonitor ==
    /\ mhMaxFailedTaskCount \in {NewHealthMonitor(0), NewHealthMonitor(2)}
    /\ mhServices \in SUBSET {MonitorServices[1], MonitorServices[2]}
    /\ mhTasks \in ClusterTasks
    /\ \A i \in 1 .. Len(mhTasks) : mhTasks[i].service \in mhServices
    /\ mhElapsed = "start"
    /\ failedTasks = [svc \in {} |-> 0]
    /\ mhPc = "polling"
    /\ ApplyOff /\ WatchOff /\ MainOff /\ DeployerOff /\ PlannerOff /\ HealthOff /\ StateOff /\ UpdateOff /\ WaitUpdatesOff /\ RemovalOff /\ SubmitOff /\ RetryOff /\ RollbackOff /\ LogsOff /\ StreamsOff

\* part_010:54-58  the slice ServiceList returns.
ListedServices == SelectSeq(MonitorServices, LAMBDA svc : svc \in mhServices)

\* part_010:84-88  allTasks of one service.
AllTasks(svc) == SelectSeq(mhTasks, LAMBDA t : t.service = svc)

\* part_010:106-134
CurrentFailedCount(allTasks) ==
    Cardinality({i \in 1 .. Len(allTasks) : allTasks[i].state = "failed"})

\* part_010:191-194  "Allow starting as intermediate state"
HealthStatusTolerated(healthStatus) == healthStatus \in {"healthy", "starting"}

\* part_010:156-199  the loop over the running tasks from index i on; acc
\* carries count, allRunning, allHealthy and hasHealthChecks.
RECURSIVE CheckRunningTasks(_, _, _)
CheckRunningTasks(allTasks, i, acc) ==
    IF i > Len(allTasks) THEN acc
    ELSE LET task == allTasks[i]
             counted == [acc EXCEPT !.count = @ + 1]
         IN IF task.state # "running"
            THEN CheckRunningTasks(allTasks, i + 1, acc)
            ELSE IF task.container \in {"inspectErr", "exited"}
            THEN CheckRunningTasks(allTasks, i + 1, [counted EXCEPT !.allRunning = FALSE])
            ELSE IF task.container = "nohealth"
            THEN CheckRunningTasks(allTasks, i + 1, counted)
            ELSE CheckRunningTasks(allTasks, i + 1,
                   [counted EXCEPT !.hasHealthChecks = TRUE,
                                   !.allHealthy = @ /\ HealthStatusTolerated(task.container)])

\* part_010:77-200  the loop over the services from index i on.  taskErr is
\* the set of services whose TaskList fails on every retry; acc also carries
\* failedTasks and returned (the loop hit a "return false").
RECURSIVE CheckServices(_, _, _, _)
CheckServices(services, i, taskErr, acc) ==
    IF i > Len(services) THEN acc
    ELSE LET svc == services[i]
             allTasks == AllTasks(svc)
             currentFailedCount == CurrentFailedCount(allTasks)
             exists == svc \in DOMAIN acc.failedTasks
             prevCount == IF exists THEN acc.failedTasks[svc] ELSE 0
             tracked == IF currentFailedCount > 0
                        THEN [acc EXCEPT !.failedTasks =
                                [s \in DOMAIN @ \cup {svc} |->
                                   IF s = svc THEN currentFailedCount ELSE @[s]]]
                        ELSE acc
         IN IF svc \in taskErr
            THEN CheckServices(services, i + 1, taskErr, [acc EXCEPT !.allRunning = FALSE])
            ELSE IF currentFailedCount > 0 /\ currentFailedCount >= mhMaxFailedTaskCount
            THEN [tracked EXCEPT !.returned = TRUE]
            ELSE IF /\ currentFailedCount > 0 /\ exists
                    /\ currentFailedCount > prevCount /\ Since("over2min")
            THEN [tracked EXCEPT !.returned = TRUE]
            ELSE CheckServices(services, i + 1, taskErr,
                               CheckRunningTasks(allTasks, 1, tracked))

\* part_010:49-51, 73  the values one pass of the loop starts from.
PassStart ==
    [count |-> 0, allRunning |-> TRUE, allHealthy |-> TRUE,
     hasHealthChecks |-> FALSE, failedTasks |-> failedTasks, returned |-> FALSE]

\* part_010:48-233  what one pass of the loop does, given whether
\* ServiceList fails and for which services TaskList fails.
PassOutcome(listErr, taskErr) ==
    LET services == ListedServices
        r == CheckServices(services, 1, taskErr, PassStart)
    IN IF listErr THEN [pc |-> "false", failedTasks |-> failedTasks]
       ELSE IF Len(services) = 0
       THEN [pc |-> IF Since("over30s") THEN "false" ELSE "polling",
             failedTasks |-> failedTasks]
       ELSE IF r.returned THEN [pc |-> "false", failedTasks |-> r.failedTasks]
       ELSE IF r.count = 0
       THEN [pc |-> IF Since("over30s") THEN "false" ELSE "polling",
             failedTasks |-> r.failedTasks]
       ELSE IF r.allRunning /\ (r.allHealthy \/ ~r.hasHealthChecks)
       THEN [pc |-> "true", failedTasks |-> r.failedTasks]
       ELSE IF Since("overWaitHealthTimeout")
       THEN [pc |-> "false", failedTasks |-> r.failedTasks]
       ELSE [pc |-> "polling", failedTasks |-> r.failedTasks]

\* One pass of the loop of WaitHealthy.
WaitHealthyPass ==
    /\ mhPc = "polling"
    /\ \E listErr \in BOOLEAN, taskErr \in SUBSET mhServices :
         LET out == PassOutcome(listErr, taskErr)
         IN /\ mhPc' = out.pc
            /\ failedTasks' = out.failedTasks
    /\ UNCHANGED <<outsideMonitor, mhMaxFailedTaskCount, mhServices, mhTasks, mhElapsed>>

\* part_010:69, 96, 216, 232  time passes while WaitHealthy sleeps.
WaitHealthySleep ==
    /\ mhPc = "polling"
    /\ ElapsedRank(mhElapsed) < Len(ElapsedOrder)
    /\ mhElapsed' = ElapsedOrder[ElapsedRank(mhElapsed) + 1]
    /\ UNCHANGED <<outsideMonitor, mhMaxFailedTaskCount, mhServices, mhTasks, failedTasks, mhPc>>

\* Between two passes the swarm schedules a task, or a task goes away.
MonitorTaskChange ==
    /\ mhPc = "polling"
    /\ \/ /\ Len(mhTasks) < MaxStackTasks
          /\ \E t \in MTaskShapes :
               /\ t.service \in mhServices
               /\ mhTasks' = InsertTask(mhTasks, t)
       \/ \E i \in 1 .. Len(mhTasks) : mhTasks' = RemoveTask(mhTasks, i)
    /\ UNCHANGED <<outsideMonitor, mhMaxFailedTaskCount, mhServices, mhElapsed, failedTasks, mhPc>>

\* Between two passes a service of the stack is created, or removed with
\* its tasks.
MonitorServiceChange ==
    /\ mhPc = "polling"
    /\ \E svc \in {MonitorServices[1], MonitorServices[2]} :
         IF svc \in mhServices
         THEN /\ mhServices' = mhServices \ {svc}
              /\ mhTasks' = SelectSeq(mhTasks, LAMBDA t : t.service # svc)
         ELSE /\ mhServices' = mhServices \cup {svc}
              /\ mhTasks' = mhTasks
    /\ UNCHANGED <<outsideMonitor, mhMaxFailedTaskCount, mhElapsed, failedTasks, mhPc>>

NextMonitor ==
    WaitHealthyPass \/ WaitHealthySleep \/ MonitorTaskChange \/ MonitorServiceChange

SpecMonitor == InitMonitor /\ [][NextMonitor]_vars


----------------------------------------------------------------------------
(* swarm.GetCurrentState                                                   *)

\* Length of the longest object name in the cluster.
MaxNameLen == 3

\* Number of objects the three label-filtered lists return together.
MaxListed == 2

\* Names are sequences of characters, so that the prefix strip works on
\* them as the code's slicing does.
NameChars == {"a", "_"}
ObjectNames == UNION {[1 .. n -> NameChars] : n \in 1 .. MaxNameLen}
StateStackNames == {<<"a">>, <<"a", "a">>}
ObjectKinds == {"service", "network", "volume"}

\* What ServiceList, NetworkList and VolumeList return under the stack's
\* label filter, one after the other: objects with distinct names per kind.
ListedObjects ==
    {l \in UNION {[1 .. n -> [kind : ObjectKinds, name : ObjectNames]] : n \in 0 .. MaxListed} :
       \A i, j \in 1 .. Len(l) : l[i] = l[j] => i = j}

InitState ==
    /\ gcStackName \in StateStackNames
    /\ gcListed \in ListedObjects
    /\ gcState = [service |-> <<>>, network |-> <<>>, volume |-> <<>>]
    /\ gcFailing = "none"
    /\ gcPc = "start"
    /\ ApplyOff /\ WatchOff /\ MainOff /\ DeployerOff /\ PlannerOff /\ HealthOff /\ MonitorOff /\ UpdateOff /\ WaitUpdatesOff /\ RemovalOff /\ SubmitOff /\ RetryOff /\ RollbackOff /\ LogsOff /\ StreamsOff

\* state.go:41-44, 61-64, 102-105
StripStackPrefix(name, stk) ==
    IF Len(name) > Len(stk) + 1 /\ SubSeq(name, 1, Len(stk)) = stk
    THEN SubSeq(name, Len(stk) + 2, Len(name))
    ELSE name

\* state.go:45, 73, 106  m[key] = value
MapPut(m, key, value) ==
    [k \in DOMAIN m \cup {key} |-> IF k = key THEN value ELSE m[k]]

\* state.go:39-46, 59-87, 100-107  the loop over one list, from index i on.
RECURSIVE FillMap(_, _, _, _)
FillMap(kind, list, i, m) ==
    IF i > Len(list) THEN m
    ELSE IF list[i].kind # kind THEN FillMap(kind, list, i + 1, m)
    ELSE FillMap(kind, list, i + 1,
                 MapPut(m, StripStackPrefix(list[i].name, gcStackName), list[i].name))

ListedOf(kind) == {i \in 1 .. Len(gcListed) : gcListed[i].kind = kind}

StateCalls == {"ServiceList", "NetworkList", "NetworkInspect", "VolumeList"}

\* The maps of state when the call failing returns its error: the lists
\* before it were stored, and of the networks those before the one whose
\* inspect (the k-th listed object) fails.
StateBuiltUntil(failing, k) ==
    [kind \in ObjectKinds |->
       IF kind = "service" /\ failing # "ServiceList"
       THEN FillMap(kind, gcListed, 1, <<>>)
       ELSE IF kind = "network" /\ failing = "NetworkInspect"
       THEN FillMap(kind, SubSeq(gcListed, 1, k - 1), 1, <<>>)
       ELSE IF kind = "network" /\ failing = "VolumeList"
       THEN FillMap(kind, gcListed, 1, <<>>)
       ELSE <<>>]

\* A GetCurrentState that hands out what it has built when a call fails.
GetCurrentState_ReturnsPartial ==
    /\ gcPc = "start"
    /\ \E failing \in {"none"} \cup StateCalls :
         /\ failing = "NetworkInspect" => ListedOf("network") # {}
         /\ gcFailing' = failing
         /\ gcPc' = "ok"
         /\ IF failing = "none"
            THEN gcState' = [kind \in ObjectKinds |-> FillMap(kind, gcListed, 1, <<>>)]
            ELSE \E k \in IF failing = "NetworkInspect" THEN ListedOf("network") ELSE {0} :
                   gcState' = StateBuiltUntil(failing, k)
    /\ UNCHANGED <<outsideState, gcStackName, gcListed>>

\* state.go:17-113  GetCurrentState; failing names the call that returns an
\* error, if any.  gcPc is the return statement taken: "ok" is return
\* state, nil (112) and "err" is return nil, err (35, 55, 70, 97).
GetCurrentState ==
    /\ gcPc = "start"
    /\ \E failing \in {"none"} \cup StateCalls :
         /\ failing = "NetworkInspect" => ListedOf("network") # {}
         /\ gcFailing' = failing
         /\ IF failing = "none"
            THEN /\ gcState' = [kind \in ObjectKinds |-> FillMap(kind, gcListed, 1, <<>>)]
                 /\ gcPc' = "ok"
            ELSE /\ \E k \in IF failing = "NetworkInspect" THEN ListedOf("network") ELSE {0} :
                      gcState' = StateBuiltUntil(failing, k)
                 /\ gcPc' = "err"
    /\ UNCHANGED <<outsideState, gcStackName, gcListed>>

NextState == GetCurrentState

SpecState == InitState /\ [][NextState]_vars


----------------------------------------------------------------------------
(* deployService: the update of an existing service                        *)

\* Tasks of an earlier deployment that the swarm keeps in the service's
\* task history: they ended before this update, with desired state shutdown.
StaleTasks == { Task("failed", "shutdown", TRUE, "none"),
                Task("shutdown", "shutdown", TRUE, "none"),
                Task("complete", "shutdown", FALSE, "none") }

\* part_001:192-196  the service exists: task 0 runs its previous version,
\* task 1 may be a leftover of an earlier deployment.
InitUpdate ==
    /\ cfgMaxFailedTaskCount \in ConfiguredBudgets
    /\ MaxFailedTaskCount = NewStackDeployer(cfgMaxFailedTaskCount)
    /\ \E stale \in {Absent} \cup StaleTasks :
         tasks = [i \in TaskIds |-> IF i = 0 THEN Running("nohealth")
                                    ELSE IF i = 1 THEN stale ELSE Absent]
    /\ seenFailedTasks = {}
    /\ newFailedTaskCount = 0
    /\ wPc = "notStarted"
    /\ wCtxDone = FALSE
    /\ wExpired = FALSE
    /\ uPc = "listOld"
    /\ uOldTasks = {}
    /\ uSubmitted = FALSE
    /\ uExisting = {}
    /\ ApplyOff /\ MainOff /\ DeployerOff /\ PlannerOff /\ HealthOff /\ MonitorOff /\ StateOff /\ WaitUpdatesOff /\ RemovalOff /\ SubmitOff /\ RetryOff /\ RollbackOff /\ LogsOff /\ StreamsOff

\* part_001:198-203, 225-230  TaskList with the filter desired-state=running.
TaskListDesiredRunning == {i \in currentTasks : tasks[i].desired = "running"}

UpdateFrame == UNCHANGED outsideUpdate

\* part_001:198-206  oldTasks, err := d.cli.TaskList(...)
UpdateListOld ==
    /\ uPc = "listOld"
    /\ \E ok \in BOOLEAN :
         IF ok THEN uOldTasks' = TaskListDesiredRunning /\ uPc' = "submit"
               ELSE uOldTasks' = uOldTasks /\ uPc' = "err"
    /\ UNCHANGED <<uSubmitted, uExisting>>
    /\ UpdateFrame

\* part_001:208-222  d.cli.ServiceUpdate(...), then the one-second sleep
\* begins.
UpdateSubmit ==
    /\ uPc = "submit"
    /\ \E ok \in BOOLEAN :
         IF ok THEN uSubmitted' = TRUE /\ uExisting' = currentTasks /\ uPc' = "settle"
               ELSE UNCHANGED <<uSubmitted, uExisting>> /\ uPc' = "err"
    /\ uOldTasks' = uOldTasks
    /\ UpdateFrame

\* part_001:241-248
hasNewTasks(newTasks, old) == \E i \in newTasks : i \notin old

\* A deployService that enters the wait whatever the second list holds.
UpdateListNew_AlwaysWaits ==
    /\ uPc = "settle"
    /\ \E ok \in BOOLEAN :
         IF ~ok THEN uPc' = "err" /\ wPc' = wPc
         ELSE uPc' = "wait" /\ wPc' = "polling"
    /\ UNCHANGED <<outsideWatchAndUpdate, cfgMaxFailedTaskCount, MaxFailedTaskCount, tasks,
                   seenFailedTasks, newFailedTaskCount, wCtxDone, wExpired,
                   uOldTasks, uSubmitted, uExisting>>

\* A deployService that hands the second list to the wait.
UpdateListNew_HandsNewList ==
    /\ uPc = "settle"
    /\ \E ok \in BOOLEAN :
         IF ~ok THEN uPc' = "err" /\ wPc' = wPc /\ uOldTasks' = uOldTasks
         ELSE IF hasNewTasks(TaskListDesiredRunning, uOldTasks)
         THEN uPc' = "wait" /\ wPc' = "polling" /\ uOldTasks' = TaskListDesiredRunning
         ELSE uPc' = "ok" /\ wPc' = wPc /\ uOldTasks' = uOldTasks
    /\ UNCHANGED <<outsideWatchAndUpdate, cfgMaxFailedTaskCount, MaxFailedTaskCount, tasks,
                   seenFailedTasks, newFailedTaskCount, wCtxDone, wExpired,
                   uSubmitted, uExisting>>

\* part_001:225-259  after the sleep: newTasks, err := d.cli.TaskList(...);
\* with a new id waitForServiceUpdate(ctx, existing.ID, oldTasks) is entered,
\* otherwise deployService returns nil.
UpdateListNew ==
    /\ uPc = "settle"
    /\ \E ok \in BOOLEAN :
         IF ~ok THEN uPc' = "err" /\ wPc' = wPc
         ELSE IF hasNewTasks(TaskListDesiredRunning, uOldTasks)
         THEN uPc' = "wait" /\ wPc' = "polling"
         ELSE uPc' = "ok" /\ wPc' = wPc
    /\ UNCHANGED <<outsideWatchAndUpdate, cfgMaxFailedTaskCount, MaxFailedTaskCount, tasks,
                   seenFailedTasks, newFailedTaskCount, wCtxDone, wExpired,
                   uOldTasks, uSubmitted, uExisting>>

\* part_001:253-256, 273  waitForServiceUpdate returned.
UpdateWaitReturns ==
    /\ uPc = "wait"
    /\ wPc \notin {"notStarted", "polling"}
    /\ uPc' = IF wPc = "completed" THEN "ok" ELSE "err"
    /\ UNCHANGED <<uOldTasks, uSubmitted, uExisting>>
    /\ UpdateFrame

NextUpdate ==
    \/ UpdateListOld \/ UpdateSubmit \/ UpdateListNew \/ UpdateWaitReturns
    \/ NextWatch

SpecUpdate == InitUpdate /\ [][NextUpdate]_vars


----------------------------------------------------------------------------
(* waitForServiceUpdates: the updated services are waited on in turn        *)

MaxUpdated == 3

UpdatedNames == {"web", "api", "db"}

\* deployResult.UpdatedServices: a list of distinct services.
UpdatedLists ==
    {l \in UNION {[1 .. n -> UpdatedNames] : n \in 0 .. MaxUpdated} :
        \A i, j \in 1 .. Len(l) : i # j => l[i] # l[j]}

InitWaitUpdates ==
    /\ wuServices \in UpdatedLists
    /\ wuPc = "loop"
    /\ wuWaited = <<>>
    /\ wuResults = <<>>
    /\ wuRet = <<"none">>
    /\ ApplyOff /\ WatchOff /\ MainOff /\ DeployerOff /\ PlannerOff /\ HealthOff /\ MonitorOff /\ StateOff /\ UpdateOff /\ RemovalOff /\ SubmitOff /\ RetryOff /\ RollbackOff /\ LogsOff /\ StreamsOff

\* apply.go:194-196  the next element of the range is handed to
\* monitor.WaitForUpdateComplete.
WaitForUpdateBegin ==
    /\ wuPc = "loop"
    /\ Len(wuWaited) < Len(wuServices)
    /\ wuWaited' = Append(wuWaited, wuServices[Len(wuWaited) + 1])
    /\ wuPc' = "waiting"
    /\ UNCHANGED <<wuServices, wuResults, wuRet>>
    /\ UNCHANGED outsideWaitUpdates

\* A waitForServiceUpdates that logs a failed wait and goes on.
WaitForUpdateEnd_GoesOn ==
    /\ wuPc = "waiting"
    /\ \E r \in {"nil", "err"} :
         /\ wuResults' = Append(wuResults, r)
         /\ wuPc' = "loop"
         /\ wuRet' = wuRet
    /\ UNCHANGED <<wuServices, wuWaited>>
    /\ UNCHANGED outsideWaitUpdates

\* apply.go:196-200  WaitForUpdateComplete returned: an error is wrapped and
\* returned, otherwise the range goes on.
WaitForUpdateEnd ==
    /\ wuPc = "waiting"
    /\ \E r \in {"nil", "err"} :
         /\ wuResults' = Append(wuResults, r)
         /\ IF r = "err"
            THEN wuPc' = "returned" /\ wuRet' = <<"err", wuWaited[Len(wuWaited)]>>
            ELSE wuPc' = "loop" /\ wuRet' = wuRet
    /\ UNCHANGED <<wuServices, wuWaited>>
    /\ UNCHANGED outsideWaitUpdates

\* apply.go:202  the range is exhausted: return nil
WaitForUpdatesReturnNil ==
    /\ wuPc = "loop"
    /\ Len(wuWaited) = Len(wuServices)
    /\ wuPc' = "returned"
    /\ wuRet' = <<"nil">>
    /\ UNCHANGED <<wuServices, wuWaited, wuResults>>
    /\ UNCHANGED outsideWaitUpdates

NextWaitUpdates ==
    \/ WaitForUpdateBegin \/ WaitForUpdateEnd \/ WaitForUpdatesReturnNil

SpecWaitUpdates == InitWaitUpdates /\ [][NextWaitUpdates]_vars


----------------------------------------------------------------------------
(* waitForServicesRemoval                                                   *)

MaxRemoved == 3

\* servicesToRemove: ServiceRemove was accepted for each of them.
RemovedLists == {[i \in 1 .. n |-> i] : n \in 1 .. MaxRemoved}

InitRemoval ==
    /\ rmServices \in RemovedLists
    /\ rmExists = [i \in 1 .. MaxRemoved |-> i <= Len(rmServices)]
    /\ rmIdx = 1
    /\ rmPc = "select"
    /\ rmCtxDone = FALSE
    /\ rmNotFound = {}
    /\ rmRet = "none"
    /\ ApplyOff /\ WatchOff /\ MainOff /\ DeployerOff /\ PlannerOff /\ HealthOff /\ MonitorOff /\ StateOff /\ UpdateOff /\ WaitUpdatesOff /\ SubmitOff /\ RetryOff /\ RollbackOff /\ LogsOff /\ StreamsOff

\* The swarm finishes removing a service.
RemovalCompletes ==
    /\ rmPc \in {"select", "inspect"}
    /\ \E i \in 1 .. Len(rmServices) :
         /\ rmExists[i]
         /\ rmExists' = [rmExists EXCEPT ![i] = FALSE]
    /\ UNCHANGED <<rmServices, rmIdx, rmPc, rmCtxDone, rmNotFound, rmRet>>
    /\ UNCHANGED outsideRemoval

\* The context of the apply ends.
RemovalCtxDone ==
    /\ rmPc \in {"select", "inspect"}
    /\ ~rmCtxDone
    /\ rmCtxDone' = TRUE
    /\ UNCHANGED <<rmServices, rmExists, rmIdx, rmPc, rmNotFound, rmRet>>
    /\ UNCHANGED outsideRemoval

\* part_001:75-78  select: case <-ctx.Done() returns the timeout error,
\* default goes on to the inspect.
RemovalSelect ==
    /\ rmPc = "select"
    /\ IF rmCtxDone THEN rmPc' = "returned" /\ rmRet' = "err"
                    ELSE rmPc' = "inspect" /\ rmRet' = rmRet
    /\ UNCHANGED <<rmServices, rmExists, rmIdx, rmCtxDone, rmNotFound>>
    /\ UNCHANGED outsideRemoval

\* What d.cli.ServiceInspectWithRaw(ctx, svc.ID, ...) can return: the
\* service, a not-found error, or another error (always so under a done
\* context).
InspectOutcomes(i) ==
    IF rmCtxDone THEN {"error"}
    ELSE IF rmExists[i] THEN {"found", "error"}
    ELSE {"notFound", "error"}

\* part_001:79-91  any error of the inspect ends the inner loop (break out of
\* the select, then the break after it) and the range takes the next
\* service; without an error the inner loop continues; part_001:94 after the
\* last service.
RemovalInspect ==
    /\ rmPc = "inspect"
    /\ \E r \in InspectOutcomes(rmServices[rmIdx]) :
         IF r = "found"
         THEN rmPc' = "select" /\ UNCHANGED <<rmIdx, rmNotFound, rmRet>>
         ELSE /\ rmNotFound' = IF r = "notFound" THEN rmNotFound \cup {rmServices[rmIdx]}
                                                 ELSE rmNotFound
              /\ IF rmIdx < Len(rmServices)
                 THEN rmIdx' = rmIdx + 1 /\ rmPc' = "select" /\ rmRet' = rmRet
                 ELSE rmIdx' = rmIdx /\ rmPc' = "returned" /\ rmRet' = "nil"
    /\ UNCHANGED <<rmServices, rmExists, rmCtxDone>>
    /\ UNCHANGED outsideRemoval

NextRemoval ==
    \/ RemovalCompletes \/ RemovalCtxDone \/ RemovalSelect \/ RemovalInspect

SpecRemoval == InitRemoval /\ [][NextRemoval]_vars


----------------------------------------------------------------------------
(* deployService: the version token of ServiceUpdate                        *)

MaxVersion == 5

InitSubmit ==
    /\ suVersion \in 0 .. 1
    /\ suSpec \in {"prev", "new"}
    /\ suPc = "list"
    /\ suRead = 0
    /\ suReads = 0
    /\ suUpdates = 0
    /\ suConflicts = 0
    /\ suRet = "none"
    /\ ApplyOff /\ WatchOff /\ MainOff /\ DeployerOff /\ PlannerOff /\ HealthOff /\ MonitorOff /\ StateOff /\ UpdateOff /\ WaitUpdatesOff /\ RemovalOff /\ RetryOff /\ RollbackOff /\ LogsOff /\ StreamsOff

\* Another actor updates the service: the swarm raises its version index.
OtherActorUpdates ==
    /\ suPc \in {"list", "listOld", "update"}
    /\ suVersion < MaxVersion
    /\ suVersion' = suVersion + 1
    /\ suSpec' = "other"
    /\ UNCHANGED <<suPc, suRead, suReads, suUpdates, suConflicts, suRet>>
    /\ UNCHANGED outsideSubmit

\* part_001:180-194  ServiceList by name; existing := existingServices[0]
\* carries the version index of that moment.
SubmitServiceList ==
    /\ suPc = "list"
    /\ \E ok \in BOOLEAN :
         IF ok THEN suRead' = suVersion /\ suReads' = suReads + 1 /\ suPc' = "listOld" /\ suRet' = suRet
               ELSE UNCHANGED <<suRead, suReads>> /\ suPc' = "returned" /\ suRet' = "listError"
    /\ UNCHANGED <<suVersion, suSpec, suUpdates, suConflicts>>
    /\ UNCHANGED outsideSubmit

\* part_001:198-206  TaskList of the old tasks.
SubmitTaskList ==
    /\ suPc = "listOld"
    /\ \E ok \in BOOLEAN :
         IF ok THEN suPc' = "update" /\ suRet' = suRet
               ELSE suPc' = "returned" /\ suRet' = "listError"
    /\ UNCHANGED <<suVersion, suSpec, suRead, suReads, suUpdates, suConflicts>>
    /\ UNCHANGED outsideSubmit

\* part_001:208-219  ServiceUpdate(ctx, existing.ID, existing.Version, *spec):
\* the swarm rejects a version index that is not the current one; any error
\* is wrapped and returned.
SubmitServiceUpdate ==
    /\ suPc = "update"
    /\ suUpdates' = suUpdates + 1
    /\ IF suRead # suVersion
       THEN /\ suConflicts' = suConflicts + 1
            /\ suPc' = "returned" /\ suRet' = "updateError"
            /\ UNCHANGED <<suVersion, suSpec>>
       ELSE /\ suConflicts' = suConflicts
            /\ \E ok \in BOOLEAN :
                 IF ok THEN /\ suVersion' = suVersion + 1 /\ suSpec' = "new"
                            /\ suPc' = "settle" /\ suRet' = suRet
                       ELSE /\ UNCHANGED <<suVersion, suSpec>>
                            /\ suPc' = "returned" /\ suRet' = "updateError"
    /\ UNCHANGED <<suRead, suReads>>
    /\ UNCHANGED outsideSubmit

NextSubmit ==
    \/ OtherActorUpdates \/ SubmitServiceList \/ SubmitTaskList \/ SubmitServiceUpdate

SpecSubmit == InitSubmit /\ [][NextSubmit]_vars


----------------------------------------------------------------------------
(* HealthMonitor: the retries of the task list                              *)

MaxPasses == 2

MaxRetryServices == 2

\* part_010:82, 262  maxRetries := 3
maxRetries == 3

RetryFunctions == {"WaitHealthy", "WaitServicesReady"}

InitRetry ==
    /\ rtFn \in RetryFunctions
    /\ rtServices \in 1 .. MaxRetryServices
    /\ rtPass = 1
    /\ rtSvc = 1
    /\ rtRetry = 0
    /\ rtAttempts = 0
    /\ rtWaits = <<>>
    /\ rtAllOk = TRUE
    /\ rtExhausted = FALSE
    /\ rtPc = "attempt"
    /\ rtVerdict = "none"
    /\ ApplyOff /\ WatchOff /\ MainOff /\ DeployerOff /\ PlannerOff /\ HealthOff /\ MonitorOff /\ StateOff /\ UpdateOff /\ WaitUpdatesOff /\ RemovalOff /\ SubmitOff /\ RollbackOff /\ LogsOff /\ StreamsOff

RetryFrame == UNCHANGED <<outsideRetry, rtFn, rtServices>>

\* The range over the services takes the next service, or is exhausted.
RetryNextService(allOk) ==
    /\ rtAllOk' = allOk
    /\ rtRetry' = 0
    /\ rtAttempts' = 0
    /\ rtWaits' = <<>>
    /\ IF rtSvc < rtServices
       THEN rtSvc' = rtSvc + 1 /\ rtPc' = "attempt"
       ELSE rtSvc' = rtSvc /\ rtPc' = "endPass"
    /\ UNCHANGED <<rtPass, rtVerdict>>

\* part_010:84-91, 264-272  TaskList succeeds: the retry loop breaks and the
\* tasks of the service are looked at (they make the pass succeed or not).
RetryAttemptSucceeds ==
    /\ rtPc = "attempt"
    /\ rtAttempts < maxRetries
    /\ \E ready \in BOOLEAN : RetryNextService(rtAllOk /\ ready)
    /\ UNCHANGED rtExhausted
    /\ RetryFrame

\* part_010:92-97, 273-278  TaskList fails and retry < maxRetries-1: sleep
\* (retry+1) seconds, then the next attempt.
RetryAttemptFails ==
    /\ rtPc = "attempt"
    /\ rtRetry < maxRetries - 1
    /\ rtAttempts' = rtAttempts + 1
    /\ rtWaits' = Append(rtWaits, rtRetry + 1)
    /\ rtRetry' = rtRetry + 1
    /\ UNCHANGED <<rtPass, rtSvc, rtAllOk, rtExhausted, rtPc, rtVerdict>>
    /\ RetryFrame

\* part_010:99-103  WaitHealthy: the last attempt failed: log, allRunning =
\* false, continue with the next service.  part_010:280-282
\* WaitServicesReady: return the error.
RetryLastAttemptFails ==
    /\ rtPc = "attempt"
    /\ rtRetry = maxRetries - 1
    /\ rtExhausted' = TRUE
    /\ IF rtFn = "WaitServicesReady"
       THEN /\ rtAttempts' = rtAttempts + 1
            /\ rtPc' = "returned"
            /\ rtVerdict' = "err"
            /\ UNCHANGED <<rtPass, rtSvc, rtRetry, rtWaits, rtAllOk>>
       ELSE RetryNextService(FALSE)
    /\ RetryFrame

\* part_010:220-232, 302-312  the end of a pass: success when every service
\* passed, the timeout verdict when the time is up, otherwise sleep and run
\* the next pass.
RetryEndPass ==
    /\ rtPc = "endPass"
    /\ IF rtAllOk
       THEN /\ rtPc' = "returned" /\ rtVerdict' = "ok"
            /\ UNCHANGED <<rtPass, rtSvc, rtAllOk>>
       ELSE \E timedOut \in BOOLEAN :
              /\ timedOut \/ rtPass < MaxPasses
              /\ IF timedOut
                 THEN /\ rtPc' = "returned"
                      /\ rtVerdict' = IF rtFn = "WaitServicesReady" THEN "err" ELSE "false"
                      /\ UNCHANGED <<rtPass, rtSvc, rtAllOk>>
                 ELSE /\ rtPass' = rtPass + 1
                      /\ rtSvc' = 1
                      /\ rtAllOk' = TRUE
                      /\ rtPc' = "attempt"
                      /\ rtVerdict' = rtVerdict
    /\ UNCHANGED <<rtRetry, rtAttempts, rtWaits, rtExhausted>>
    /\ RetryFrame

NextRetry ==
    \/ RetryAttemptSucceeds \/ RetryAttemptFails \/ RetryLastAttemptFails
    \/ RetryEndPass

SpecRetry == InitRetry /\ [][NextRetry]_vars


----------------------------------------------------------------------------
(* rollback (main.go), called once or twice with the same map               *)

MaxRollbackRuns == 2

\* What a service can look like when rollback starts: absent, on the spec of
\* this run, or on another spec.
RollbackSpecs == {NoService, ServiceSpec("v2", 2), ServiceSpec("v1", 1)}

InitRollback ==
    /\ rcCluster \in [composeServices -> RollbackSpecs]
    /\ rcOld \in [composeServices -> {"none", "v1"}]
    /\ rcTodo = {n \in composeServices : rcOld[n] # "none"}
    /\ rcRun = 1
    /\ rcPc = "loop"
    /\ rcAttempted = {}
    /\ rcFailedFirst = {}
    /\ rcAfterFirst = rcCluster
    /\ ApplyOff /\ WatchOff /\ MainOff /\ DeployerOff /\ PlannerOff /\ HealthOff /\ MonitorOff /\ StateOff /\ UpdateOff /\ WaitUpdatesOff /\ RemovalOff /\ SubmitOff /\ RetryOff /\ LogsOff /\ StreamsOff

\* The keys of old.
RollbackRecorded == {n \in composeServices : rcOld[n] # "none"}

\* A rollback that also takes one replica away.
RolledBack_ScalesDown(spec, img) ==
    [spec EXCEPT !.image = img, !.replicas = @ - 1]

\* main.go:218  existing.Spec.TaskTemplate.ContainerSpec.Image = img
RolledBack(spec, img) == [spec EXCEPT !.image = img]

\* A rollback that returns at the first failed call.
RollbackIteration_ReturnsOnFailure ==
    /\ rcPc = "loop"
    /\ \E svc \in rcTodo, inspOk \in BOOLEAN, updOk \in BOOLEAN :
         /\ rcAttempted' = rcAttempted \cup {svc}
         /\ IF rcCluster[svc] # NoService /\ inspOk /\ updOk
            THEN /\ rcCluster' = [rcCluster EXCEPT ![svc] = RolledBack(@, rcOld[svc])]
                 /\ rcFailedFirst' = rcFailedFirst
                 /\ rcTodo' = rcTodo \ {svc}
            ELSE /\ rcCluster' = rcCluster
                 /\ rcFailedFirst' = IF rcRun = 1 THEN rcFailedFirst \cup {svc} ELSE rcFailedFirst
                 /\ rcTodo' = {}
    /\ UNCHANGED <<outsideRollback, rcOld, rcRun, rcPc, rcAfterFirst>>

\* main.go:211-223  one iteration of the range over old: the inspect fails
\* for a service that does not exist and can fail otherwise; after a failed
\* inspect (continue) or a failed update the range goes on.
RollbackIteration ==
    /\ rcPc = "loop"
    /\ \E svc \in rcTodo, inspOk \in BOOLEAN, updOk \in BOOLEAN :
         /\ rcTodo' = rcTodo \ {svc}
         /\ rcAttempted' = rcAttempted \cup {svc}
         /\ IF rcCluster[svc] # NoService /\ inspOk /\ updOk
            THEN /\ rcCluster' = [rcCluster EXCEPT ![svc] = RolledBack(@, rcOld[svc])]
                 /\ rcFailedFirst' = rcFailedFirst
            ELSE /\ rcCluster' = rcCluster
                 /\ rcFailedFirst' = IF rcRun = 1 THEN rcFailedFirst \cup {svc} ELSE rcFailedFirst
    /\ UNCHANGED <<outsideRollback, rcOld, rcRun, rcPc, rcAfterFirst>>

\* main.go:224  the range is exhausted: rollback returns.
RollbackReturns ==
    /\ rcPc = "loop"
    /\ rcTodo = {}
    /\ rcPc' = "returned"
    /\ rcAfterFirst' = IF rcRun = 1 THEN rcCluster ELSE rcAfterFirst
    /\ UNCHANGED <<outsideRollback, rcCluster, rcOld, rcTodo, rcRun, rcAttempted, rcFailedFirst>>

\* rollback is called again with the same map, right after it returned.
RollbackAgain ==
    /\ rcPc = "returned"
    /\ rcRun < MaxRollbackRuns
    /\ rcRun' = rcRun + 1
    /\ rcPc' = "loop"
    /\ rcTodo' = RollbackRecorded
    /\ rcAttempted' = {}
    /\ UNCHANGED <<outsideRollback, rcCluster, rcOld, rcFailedFirst, rcAfterFirst>>

NextRollback == RollbackIteration \/ RollbackReturns \/ RollbackAgain

SpecRollback == InitRollback /\ [][NextRollback]_vars


----------------------------------------------------------------------------
(* LogStreamer.StreamLogs: discovery of the stack's containers              *)

MaxContainers == 3

ContainerIds == 1 .. MaxContainers

InitLogs ==
    /\ lsRunning \in SUBSET ContainerIds
    /\ lsPresentAtStart = lsRunning
    /\ trackedContainers = {}
    /\ lsStreams = [c \in ContainerIds |-> 0]
    /\ lsCtxDone = FALSE
    /\ lsPc = "scan"
    /\ ApplyOff /\ WatchOff /\ MainOff /\ DeployerOff /\ PlannerOff /\ HealthOff /\ MonitorOff /\ StateOff /\ UpdateOff /\ WaitUpdatesOff /\ RemovalOff /\ SubmitOff /\ RetryOff /\ RollbackOff /\ StreamsOff

\* The swarm starts a container of the stack that did not exist before.
ContainerStarts ==
    /\ lsPc \in {"scan", "loop"}
    /\ \E c \in ContainerIds \ (lsRunning \cup lsPresentAtStart \cup trackedContainers) :
         lsRunning' = lsRunning \cup {c}
    /\ UNCHANGED <<outsideLogs, lsPresentAtStart, trackedContainers, lsStreams, lsCtxDone, lsPc>>

\* A running container of the stack stops.
ContainerStops ==
    /\ lsPc \in {"scan", "loop"}
    /\ \E c \in lsRunning : lsRunning' = lsRunning \ {c}
    /\ UNCHANGED <<outsideLogs, lsPresentAtStart, trackedContainers, lsStreams, lsCtxDone, lsPc>>

\* The context of the apply is cancelled.
LogsCtxDone ==
    /\ lsPc \in {"scan", "loop"}
    /\ ~lsCtxDone
    /\ lsCtxDone' = TRUE
    /\ UNCHANGED <<outsideLogs, lsRunning, lsPresentAtStart, trackedContainers, lsStreams, lsPc>>

\* part_012:39-51  the first scan: ContainerList (running containers only);
\* when it succeeds the stack's containers are tracked without a stream,
\* when it fails nothing is tracked and the loop starts all the same.
LogsFirstScan ==
    /\ lsPc = "scan"
    /\ \E ok \in IF lsCtxDone THEN {FALSE} ELSE BOOLEAN :
         trackedContainers' = IF ok THEN lsRunning ELSE trackedContainers
    /\ lsPc' = "loop"
    /\ UNCHANGED <<outsideLogs, lsRunning, lsPresentAtStart, lsStreams, lsCtxDone>>

\* part_012:54-56  case <-ctx.Done(): return
LogsReturn ==
    /\ lsPc = "loop"
    /\ lsCtxDone
    /\ lsPc' = "returned"
    /\ UNCHANGED <<outsideLogs, lsRunning, lsPresentAtStart, trackedContainers, lsStreams, lsCtxDone>>

\* part_012:57-89  case <-ticker.C: ContainerList; every listed container of
\* the stack that is not tracked is tracked and gets a streamContainerLogs
\* goroutine.
LogsPoll ==
    /\ lsPc = "loop"
    /\ \E ok \in IF lsCtxDone THEN {FALSE} ELSE BOOLEAN :
         LET found == IF ok THEN lsRunning \ trackedContainers ELSE {}
         IN /\ trackedContainers' = trackedContainers \cup found
            /\ lsStreams' = [c \in ContainerIds |->
                               IF c \in found THEN lsStreams[c] + 1 ELSE lsStreams[c]]
    /\ UNCHANGED <<outsideLogs, lsRunning, lsPresentAtStart, lsCtxDone, lsPc>>

NextLogs ==
    \/ ContainerStarts \/ ContainerStops \/ LogsCtxDone
    \/ LogsFirstScan \/ LogsReturn \/ LogsPoll

SpecLogs == InitLogs /\ [][NextLogs]_vars


----------------------------------------------------------------------------
(* The observability streams under a cancelled context                      *)

MaxEvents == 2

MaxLogServices == 2

LogServices == 1 .. MaxLogServices

InitStreams ==
    /\ stCtxDone = FALSE
    /\ evPc = "loop"
    /\ evPending = 0
    /\ hlPc = "init"
    /\ hlTick = FALSE
    /\ lgPc = "sleep"
    /\ lgListed \in SUBSET LogServices
    /\ lgProc = [s \in LogServices |-> "none"]
    /\ lgKiller = [s \in LogServices |-> "none"]
    /\ ApplyOff /\ WatchOff /\ MainOff /\ DeployerOff /\ PlannerOff /\ HealthOff /\ MonitorOff /\ StateOff /\ UpdateOff /\ WaitUpdatesOff /\ RemovalOff /\ SubmitOff /\ RetryOff /\ RollbackOff /\ LogsOff

EventFrame == UNCHANGED <<outsideStreams, hlPc, hlTick, lgPc, lgListed, lgProc, lgKiller>>
HealthLogFrame == UNCHANGED <<outsideStreams, evPc, evPending, lgPc, lgListed, lgProc, lgKiller>>
ServiceLogFrame == UNCHANGED <<outsideStreams, evPc, evPending, hlPc, hlTick>>

\* The context handed to the streams is cancelled.
StreamsCtxCancelled ==
    /\ ~stCtxDone
    /\ stCtxDone' = TRUE
    /\ UNCHANGED <<evPc, evPending, hlPc, hlTick, lgPc, lgListed, lgProc, lgKiller>>
    /\ UNCHANGED outsideStreams

\* events.go:34  the client delivers an event on msgs while the context
\* lives.
EventArrives ==
    /\ evPc = "loop"
    /\ ~stCtxDone
    /\ evPending < MaxEvents
    /\ evPending' = evPending + 1
    /\ UNCHANGED <<stCtxDone, evPc>>
    /\ EventFrame

\* events.go:38-108  case e := <-msgs: the event is printed or skipped.
EventHandled ==
    /\ evPc = "loop"
    /\ evPending > 0
    /\ evPending' = evPending - 1
    /\ UNCHANGED <<stCtxDone, evPc>>
    /\ EventFrame

\* events.go:110-114  case err := <-errs: return.
EventStreamFails ==
    /\ evPc = "loop"
    /\ ~stCtxDone
    /\ evPc' = "returned"
    /\ UNCHANGED <<stCtxDone, evPending>>
    /\ EventFrame

\* events.go:110-117  with the context done the select takes errs (the
\* client reports ctx.Err()) or ctx.Done(): return.
EventLoopReturns ==
    /\ evPc = "loop"
    /\ stCtxDone
    /\ evPc' = "returned"
    /\ UNCHANGED <<stCtxDone, evPending>>
    /\ EventFrame

\* part_011:38-42  initExistingContainers and the first checkHealthLogs.
HealthLogsInit ==
    /\ hlPc = "init"
    /\ hlPc' = "loop"
    /\ UNCHANGED <<stCtxDone, hlTick>>
    /\ HealthLogFrame

\* part_011:33  the 3-second ticker fires.
HealthLogsTick ==
    /\ hlPc \in {"init", "loop"}
    /\ ~hlTick
    /\ hlTick' = TRUE
    /\ UNCHANGED <<stCtxDone, hlPc>>
    /\ HealthLogFrame

\* part_011:49-50  case <-ticker.C: checkHealthLogs(ctx)
HealthLogsCheck ==
    /\ hlPc = "loop"
    /\ hlTick
    /\ hlTick' = FALSE
    /\ UNCHANGED <<stCtxDone, hlPc>>
    /\ HealthLogFrame

\* part_011:46-48  case <-ctx.Done(): return
HealthLogsReturn ==
    /\ hlPc = "loop"
    /\ stCtxDone
    /\ hlPc' = "returned"
    /\ UNCHANGED <<stCtxDone, hlTick>>
    /\ HealthLogFrame

\* logging.go:21-36  after the sleep ServiceList: on an error (always under
\* a done context) or with no service StreamLogs returns.
ServiceLogsList ==
    /\ lgPc = "sleep"
    /\ \E ok \in IF stCtxDone THEN {FALSE} ELSE BOOLEAN :
         lgPc' = IF ok /\ lgListed # {} THEN "spawn" ELSE "returned"
    /\ UNCHANGED <<stCtxDone, lgListed, lgProc, lgKiller>>
    /\ ServiceLogFrame

\* logging.go:40-41  go func(serviceName) for the next listed service; after
\* the last one StreamLogs returns.
ServiceLogsSpawn ==
    /\ lgPc = "spawn"
    /\ LET todo == {s \in lgListed : lgProc[s] = "none"}
       IN /\ todo # {}
          /\ \E s \in todo :
               /\ lgProc' = [lgProc EXCEPT ![s] = "spawned"]
               /\ lgPc' = IF todo = {s} THEN "returned" ELSE "spawn"
    /\ UNCHANGED <<stCtxDone, lgListed, lgKiller>>
    /\ ServiceLogFrame

\* A goroutine that starts the command without the goroutine that kills it.
ServiceLogsCmdStart_NoKiller(s) ==
    /\ lgProc[s] = "spawned"
    /\ \E ok \in BOOLEAN :
         /\ lgProc' = [lgProc EXCEPT ![s] = IF ok THEN "running" ELSE "notStarted"]
         /\ lgKiller' = lgKiller
    /\ UNCHANGED <<stCtxDone, lgPc, lgListed>>
    /\ ServiceLogFrame

\* logging.go:43-76  the pipes and cmd.Start(): on an error the goroutine
\* returns; otherwise the subprocess runs and the goroutine that waits for
\* ctx.Done() is started.
ServiceLogsCmdStart(s) ==
    /\ lgProc[s] = "spawned"
    /\ \E ok \in BOOLEAN :
         /\ lgProc' = [lgProc EXCEPT ![s] = IF ok THEN "running" ELSE "notStarted"]
         /\ lgKiller' = [lgKiller EXCEPT ![s] = IF ok THEN "waiting" ELSE @]
    /\ UNCHANGED <<stCtxDone, lgPc, lgListed>>
    /\ ServiceLogFrame

\* logging.go:78  cmd.Wait() returns: the subprocess ended by itself.
ServiceLogsCmdExits(s) ==
    /\ lgProc[s] = "running"
    /\ lgProc' = [lgProc EXCEPT ![s] = "exited"]
    /\ UNCHANGED <<stCtxDone, lgPc, lgListed, lgKiller>>
    /\ ServiceLogFrame

\* logging.go:66-76  case <-ctx.Done(): return, and the deferred
\* cmd.Process.Kill().
ServiceLogsKill(s) ==
    /\ lgKiller[s] = "waiting"
    /\ stCtxDone
    /\ lgKiller' = [lgKiller EXCEPT ![s] = "killed"]
    /\ lgProc' = [lgProc EXCEPT ![s] = IF @ = "running" THEN "killed" ELSE @]
    /\ UNCHANGED <<stCtxDone, lgPc, lgListed>>
    /\ ServiceLogFrame

ServiceLogsGoroutines ==
    \E s \in LogServices :
        ServiceLogsCmdStart(s) \/ ServiceLogsCmdExits(s) \/ ServiceLogsKill(s)

NextStreams ==
    \/ StreamsCtxCancelled
    \/ EventArrives \/ EventHandled \/ EventStreamFails \/ EventLoopReturns
    \/ HealthLogsInit \/ HealthLogsTick \/ HealthLogsCheck \/ HealthLogsReturn
    \/ ServiceLogsList \/ ServiceLogsSpawn
    \/ ServiceLogsGoroutines

\* The goroutines keep being scheduled and their calls return; a select
\* with several ready cases takes each of them sooner or later.
SpecStreams ==
    /\ InitStreams /\ [][NextStreams]_vars
    /\ WF_vars(EventLoopReturns)
    /\ WF_vars(HealthLogsInit) /\ WF_vars(HealthLogsReturn)
    /\ WF_vars(ServiceLogsList) /\ WF_vars(ServiceLogsSpawn)
    /\ \A s \in LogServices : WF_vars(ServiceLogsCmdStart(s)) /\ WF_vars(ServiceLogsKill(s))


----------------------------------------------------------------------------
(* Claims about runApply                                                   *)

\* C1: without --no-wait, once runApply has returned after a convergence
\* wait (waitForServiceUpdates or waitForAllTasksHealthy) failed, the main
\* flow has invoked snapshot.Rollback exactly once and runApply returned an
\* error; runApply returns nil only if no convergence wait failed.
C1_ConvergenceFailureRollsBack ==
    /\ (ret # "none" /\ convFailed) => (rbCalls["main"] = 1 /\ ret = "err" /\ ~optNoWait)
    /\ ret = "nil" => ~convFailed

\* C1 witness: runApply returned an error after a failed convergence wait and
\* the main flow's rollback.
C1_Witness ==
    /\ mainPc = "returned" /\ ret = "err" /\ convFailed
    /\ rbCalls["main"] = 1 /\ "main" \notin rbRunning

\* C2: in one apply snapshot.Rollback is invoked at most once, also when a
\* signal arrives while or after the main flow rolls back.
C2_RollbackAtMostOnce == RollbackCount <= 1

\* C3: the rollback does not run while the Executor (Deploy) is still
\* running, and Deploy issues no cluster write after a rollback has begun.
C3_RollbackAfterExecutor ==
    /\ rbRunning # {} => mainPc # "deploy"
    /\ ~writeAfterRb

\* C4: when Deploy returned an error, the rollback has been invoked by the
\* time runApply returns that error.
C4_DeployErrorRollsBack ==
    (ret = "err" /\ deployFailed) => RollbackCount >= 1

\* C5: once the process has ended, a signal the handler received while the
\* apply was running and not yet marked complete led to a rollback and exit
\* code 130, and one received after it was marked complete led to no rollback
\* and exit code 0.
C5_SignalExitCodes ==
    exitCode # -1 =>
        /\ sigAtComplete = "before" => (rbCalls["sig"] = 1 /\ exitCode = 130)
        /\ sigAtComplete = "after" => (RollbackCount = 0 /\ exitCode = 0)

\* C10: in an apply without --prune no ServiceRemove is issued for an orphan
\* and every orphan of the snapshot is still present.
C10_OrphansKeptWithoutPrune ==
    ~optPrune =>
        /\ ~orphanRemoveIssued
        /\ \A n \in Names \ Manifest : snap[n] = "prev" => cluster[n] = "prev"

----------------------------------------------------------------------------
(* Claims about waitForServiceUpdate                                       *)

\* The new tasks that are running (and meant to run) in the poll that
\* returned; the cluster is not followed past that poll.
RunningNewTasks ==
    {i \in currentTasks \ oldTaskIDs :
        tasks[i].state = "running" /\ tasks[i].desired = "running"}

\* C6: when waitForServiceUpdate has returned the completed verdict, every
\* running new task of that poll has a container that was inspected
\* successfully and that either defines no healthcheck or reports healthy.
C6_CompletedOnlyWhenHealthy ==
    wPc = "completed" =>
        \A i \in RunningNewTasks : tasks[i].container \in {"nohealth", "healthy"}

\* The budget the claim states: the configured value, 3 when it is <= 0.
C7_Budget == IF cfgMaxFailedTaskCount <= 0 THEN 3 ELSE cfgMaxFailedTaskCount

----------------------------------------------------------------------------
(* Claims about main() and rollback                                        *)

\* C8: after a rollback whose every call succeeded, the stack's services
\* equal what they were before the apply: a service that existed has its
\* whole previous spec, a service this apply created is gone.
C8_RollbackRestoresSnapshot ==
    (/\ mPc = "exit1"
     /\ rbAllOk
     /\ \E n \in composeServices : prevImages[n] # "none")
        => mCluster = pre

\* C9: when waitHealthy failed because the deadline fired, rollback issued
\* no call under an expired context and every service that existed before
\* the apply is back on its previous image.
C9_DeadlineRollbackTakesEffect ==
    (mPc = "exit1" /\ failCause = "deadline") =>
        /\ ~rbExpiredCall
        /\ \A n \in composeServices :
             pre[n] # NoService => mCluster[n].image = pre[n].image

----------------------------------------------------------------------------
(* Claims about validation, exit codes and --no-wait                       *)

\* The compose file breaks a validation rule: a service has no image, or an
\* image reference ends in :latest and --allow-latest is absent.
ManifestInvalid ==
    \/ composeSpec = "noImage"
    \/ (composeSpec = "latest" /\ ~optAllowLatest)

\* C11: an apply whose manifest breaks a validation rule makes no cluster
\* call (no snapshot is read, Deploy is not entered), invokes no rollback and
\* does not return success.
C11_InvalidManifestRejectedFirst ==
    ManifestInvalid =>
        /\ snap = [n \in Names |-> "none"]
        /\ dPc = "idle"
        /\ RollbackCount = 0
        /\ ret # "nil"

\* C12: in a run without a signal, the process exit code is 2 after a
\* convergence timeout followed by the main flow's rollback, and 1 after an
\* error that came before convergence (parse, validation or Deploy error).
C12_ExitCodeByFailureKind ==
    (exitCode # -1 /\ ~sigSeen /\ ret = "err") =>
        /\ (convTimeout /\ rbCalls["main"] = 1) => exitCode = 2
        /\ ~convFailed => exitCode = 1

\* C13: with --no-wait the main flow never enters a convergence wait and
\* never invokes rollback, and the step it takes after a successful Deploy
\* marks the apply complete and returns nil.
C13_NoWaitSkipsConvergence ==
    /\ [](optNoWait =>
            /\ mainPc \notin {"waitUpdates", "waitHealthy", "failed", "rollback", "complete"}
            /\ ~convFailed
            /\ rbCalls["main"] = 0)
    /\ [][(optNoWait /\ mainPc = "deployed" /\ mainPc' # "deployed")
            => (mainPc' = "returned" /\ ret' = "nil" /\ deploymentComplete' = 1)]_vars

\* C13 witness: with --no-wait, Deploy changed services and runApply has
\* returned nil with the apply marked complete.
C13_Witness ==
    /\ optNoWait /\ updated # {}
    /\ mainPc = "returned" /\ ret = "nil" /\ deploymentComplete = 1

----------------------------------------------------------------------------
(* Claims about the services Deploy touches                                *)

\* C14: every service Deploy has updated or removed carried, when Deploy was
\* entered, the namespace label of this stack.
C14_OnlyLabelledServicesTouched ==
    \A n \in sdUpdated \cup sdRemoved : svcsBefore[n] = stackName

----------------------------------------------------------------------------
(* Claims about the names and labels of created objects                    *)

\* C15: every network and every service main() has created is named
\* "<stack>_<local name>" and carries the namespace label with the stack
\* name as its value.
C15_CreatedObjectsNamedAndLabelled ==
    \A o \in mCreated :
        /\ o.name = stack \o "_" \o o.local
        /\ o.namespace = stack

\* C15 witness: main() has created a network and a service.
C15_Witness ==
    /\ \E o \in mCreated : o.kind = "network"
    /\ \E o \in mCreated : o.kind = "service"

----------------------------------------------------------------------------
(* Claims about the planner                                                *)

\* Positions of the actions a plan holds for a name of a kind.
ActionsFor(p, kind, n) == {i \in 1 .. Len(p[kind]) : p[kind][i].name = n}

\* C16: in the plan CreatePlan returned, every kind has exactly one action
\* for each local name of current or desired - create when the name is only
\* desired, delete when it is only current, none (for a service: none or
\* update) when it is in both - no action for any other name, and no update
\* for a network, volume, config or secret.
C16_OneActionPerName ==
    pPc # "start" =>
        \A k \in Kinds, n \in ServiceLocalNames \cup ResourceLocalNames :
            LET at == ActionsFor(plan, k, n)
                inCur == n \in pCurrent[k]
                inDes == n \in pDesired[k]
            IN /\ Cardinality(at) = (IF inCur \/ inDes THEN 1 ELSE 0)
               /\ \A i \in at :
                    LET verb == plan[k][i].action
                    IN /\ (inDes /\ ~inCur) => verb = "create"
                       /\ (inCur /\ ~inDes) => verb = "delete"
                       /\ (inCur /\ inDes) =>
                            verb \in (IF k = "services" THEN {"none", "update"} ELSE {"none"})

\* C16 witness: a plan that creates one service and deletes another, keeps a
\* network, deletes a volume and creates a config.
C16_Witness ==
    /\ pPc = "planned"
    /\ \E i, j \in 1 .. Len(plan["services"]) :
         plan["services"][i].action = "create" /\ plan["services"][j].action = "delete"
    /\ plan["networks"] = <<Action("data", "none")>>
    /\ plan["volumes"] = <<Action("data", "delete")>>
    /\ plan["configs"] = <<Action("data", "create")>>

\* C17: for a service present in both states whose compared fields (image,
\* and replicas when the manifest sets them) are equal, the plan holds the
\* action none.
C17_UnchangedServicePlansNone ==
    pPc # "start" =>
        \A n \in pCurrent["services"] \cap pDesired["services"] :
            (/\ pDesiredSvc[n].image = CurrentService.image
             /\ (pDesiredSvc[n].deploy => pDesiredSvc[n].replicas = CurrentService.replicas))
            => \A i \in ActionsFor(plan, "services", n) : plan["services"][i].action = "none"

\* Position of a local name in the alphabetical order.
Rank(n) == CHOOSE i \in 1 .. Len(NameOrder) : NameOrder[i] = n

\* C18: two CreatePlan calls on the same states return the same plan, and
\* within each kind the actions are in alphabetical order of their names.
C18_PlanDeterministicAndSorted ==
    /\ pPc = "replanned" => plan2 = plan
    /\ pPc # "start" =>
         \A k \in Kinds : \A i, j \in 1 .. Len(plan[k]) :
             i < j => Rank(plan[k][i].name) < Rank(plan[k][j].name)

----------------------------------------------------------------------------
(* Claims about waitForAllTasksHealthy                                     *)

\* The current-version tasks the list of a service holds.
CurrentTasks(svc) ==
    {i \in TaskSlots : hTasks[svc].tasks[i].version = "current"}

\* C19: when waitForAllTasksHealthy has returned success, its context was
\* not done and, for every updated service, the task list succeeded, every
\* current-version task is running, no container of such a task that
\* defines a healthcheck reports another status than healthy, and at least
\* one current-version task runs a container that is healthy or defines no
\* healthcheck; a timeout is returned only with the context done.
C19_HealthyOnlyWhenAllTasksHealthy ==
    /\ hPc = "ok" =>
         /\ ~hCtxDone
         /\ \A svc \in updatedServices :
              /\ hTasks[svc].ok
              /\ \A i \in CurrentTasks(svc) :
                   /\ hTasks[svc].tasks[i].state = "running"
                   /\ hTasks[svc].tasks[i].container \in {"none", "nohealth", "healthy"}
              /\ \E i \in CurrentTasks(svc) :
                   hTasks[svc].tasks[i].container \in {"nohealth", "healthy"}
    /\ hPc = "timeout" => hCtxDone

\* C19 witness: success with two updated services, one of them with an old
\* task that is not running next to a healthy current task, the other with
\* a running current task whose container has no healthcheck.
C19_Witness ==
    /\ hPc = "ok" /\ updatedServices = {"a", "b"}
    /\ \E i, j \in TaskSlots :
         /\ hTasks["a"].tasks[i].version = "old"
         /\ hTasks["a"].tasks[j].container = "healthy"
    /\ \E i \in TaskSlots : hTasks["b"].tasks[i].container = "nohealth"

----------------------------------------------------------------------------
(* Claims about HealthMonitor.WaitHealthy                                  *)

\* The containers the last pass inspected: those of the running tasks of
\* the listed services.
CheckedContainers ==
    {i \in 1 .. Len(mhTasks) : mhTasks[i].state = "running"}

\* C20: when WaitHealthy has returned true, at least one container of the
\* stack was checked, every checked container is running, and every checked
\* container that defines a healthcheck reports healthy.
C20_TrueOnlyWhenAllHealthy ==
    mhPc = "true" =>
      /\ CheckedContainers # {}
      /\ \A i \in CheckedContainers :
           mhTasks[i].container \in {"nohealth", "healthy"}


----------------------------------------------------------------------------
(* Claims about swarm.GetCurrentState                                      *)

\* C21: after GetCurrentState succeeded, every listed object named
\* "{stack}_{local}" with a non-empty local is stored under the key local,
\* each map has as many entries as objects of its kind were listed, and
\* nothing listed gives empty maps.
C21_StateKeyedByLocalName ==
    gcPc = "ok" =>
      /\ \A i \in 1 .. Len(gcListed) :
           \A local \in ObjectNames :
             gcListed[i].name = gcStackName \o <<"_">> \o local =>
               /\ local \in DOMAIN gcState[gcListed[i].kind]
               /\ gcState[gcListed[i].kind][local] = gcListed[i].name
      /\ \A kind \in ObjectKinds :
           Cardinality(DOMAIN gcState[kind]) = Cardinality(ListedOf(kind))
      /\ gcListed = <<>> => \A kind \in ObjectKinds : gcState[kind] = <<>>


----------------------------------------------------------------------------
(* Claims about the snapshot of runApply                                   *)

SnapshotTaken == \A n \in Names : snap[n] # "none"

\* C22: the snapshot is taken before Deploy is entered, hence before its
\* first cluster write; it is never assigned again; and every rollback, of
\* the main flow or of the signal handler, runs with the snapshot taken and
\* restores from that value.
C22_SnapshotBeforeDeployAndShared ==
    /\ [](mainPc \in {"spawn", "deploy", "deployed", "waitUpdates", "waitHealthy",
                     "failed", "rollback", "complete"} => SnapshotTaken)
    /\ [](rbRunning # {} => SnapshotTaken)
    /\ [][SnapshotTaken => snap' = snap]_vars
    /\ [][(rbRunning' \subseteq rbRunning /\ rbRunning' # rbRunning)
            => cluster' = RollbackEffect(cluster)]_vars

\* C22 witness: Deploy has updated a service that the snapshot holds, and
\* both the main flow and the signal handler have run their rollback.
C22_Witness ==
    /\ rbCalls["main"] = 1 /\ rbCalls["sig"] = 1 /\ rbRunning = {}
    /\ \E n \in updated : snap[n] = "prev"

----------------------------------------------------------------------------
(* Claims about the order of StackDeployer.Deploy                          *)

\* The steps of Deploy in their order; removeObsoleteServices spans
\* "obsolete", "remove" and "waitRemoval".
DeploySteps == <<{"exited"}, {"obsolete", "remove", "waitRemoval"}, {"pull"},
                 {"networks"}, {"volumes"}, {"services"}, {"ok"}>>

StepOf(p) == CHOOSE i \in 1 .. Len(DeploySteps) : p \in DeploySteps[i]

\* C23: Deploy moves from a step only to the same step, to the next one
\* (the step returned nil) or to its error return; it starts with its first
\* step; and from the error return the only move is runApply returning the
\* error, so that no later step runs.
C23_DeployStepsInOrder ==
    [][dPc' # dPc =>
         \/ dPc = "idle" /\ dPc' = "exited"
         \/ dPc = "ok" /\ dPc' = "idle"
         \/ dPc = "err" /\ dPc' = "idle" /\ ret' = "err" /\ deployFailed'
         \/ /\ dPc \notin {"idle", "ok", "err"}
            /\ \/ dPc' = "err"
               \/ /\ dPc' \notin {"idle", "err"}
                  /\ StepOf(dPc') \in {StepOf(dPc), StepOf(dPc) + 1}]_vars

\* C23 witness: Deploy removed an obsolete service, then failed in a later
\* step before any service was deployed, and runApply returned the error.
C23_Witness ==
    /\ mainPc = "returned" /\ deployFailed /\ ret = "err"
    /\ toRemove # {} /\ \A n \in toRemove : cluster[n] = "absent"
    /\ updated = {}

----------------------------------------------------------------------------
(* Claims about the end of waitForServiceUpdate                            *)

WatchVerdicts == {"completed", "failed", "timeout", "cancelled", "listErr"}

----------------------------------------------------------------------------
(* Claims about the classification of tasks by waitForServiceUpdate        *)

\* The new tasks of the list that are failed as the claim words it.
FailedNewTasks ==
    {i \in currentTasks \ oldTaskIDs :
       \/ tasks[i].state \in {"failed", "rejected"}
       \/ tasks[i].state = "shutdown" /\ tasks[i].err
       \/ tasks[i].state = "complete" /\ tasks[i].desired = "shutdown"}

\* C26: the tasks an iteration classifies as failed are never others than
\* the new tasks that are failed or rejected, shut down with an error, or
\* complete with desired state shutdown, and the iteration classifies all of
\* them; a pre-update task is among them in no state.
C26_FailedClassification ==
    /\ [](seenFailedTasks \subseteq FailedNewTasks)
    /\ [](seenFailedTasks \cap oldTaskIDs = {})
    /\ <>[](seenFailedTasks = FailedNewTasks)

\* C26 witness: the iteration classified a replaced new task (complete,
\* desired shutdown) as failed next to a failed old task that it skipped.
C26_Witness ==
    /\ seenFailedTasks = {1}
    /\ tasks[1].state = "complete" /\ tasks[1].desired = "shutdown"
    /\ tasks[0].state = "failed"

----------------------------------------------------------------------------
(* Claims about the completed verdict of waitForServiceUpdate              *)

\* C27: when waitForServiceUpdate has returned the completed verdict, no
\* pre-update task of that poll's list is running and at least one new task
\* is running with desired state running.
C27_CompletedOnlyWhenReplaced ==
    wPc = "completed" =>
        /\ \A i \in currentTasks \cap oldTaskIDs : tasks[i].state # "running"
        /\ RunningNewTasks # {}

\* C27 witness: completed with the old task shut down, one new task failed
\* and its replacement running.
C27_Witness ==
    /\ wPc = "completed"
    /\ tasks[0].state = "shutdown"
    /\ \E i, j \in TaskIds \ oldTaskIDs :
         tasks[i].state = "failed" /\ tasks[j].state = "running"

----------------------------------------------------------------------------
(* Claims about the effects of waitForServiceUpdate                        *)

\* C30: no step of waitForServiceUpdate, whatever its outcome, changes the
\* tasks of the cluster: a step that moves the watcher on (its verdict, its
\* set of failed ids or its counter) leaves them as they are.
C30_WatchOnlyReads ==
    [][(wPc' # wPc \/ seenFailedTasks' # seenFailedTasks
          \/ newFailedTaskCount' # newFailedTaskCount) => tasks' = tasks]_vars

\* C30 witness: the wait was cancelled with the old task still running and
\* a new task that had failed.
C30_Witness ==
    /\ wPc = "cancelled"
    /\ tasks[0].state = "running"
    /\ \E i \in seenFailedTasks : tasks[i].state = "failed"

\* C24: deployService lists the service's tasks before it submits the
\* update; when that listing fails no update is submitted; and the set of
\* old tasks the watcher works with is exactly the set listed then, which no
\* later step replaces.
C24_OldTasksListedBeforeUpdate ==
    /\ [][(uSubmitted' /\ ~uSubmitted) => (uPc = "submit" /\ uOldTasks = TaskListDesiredRunning)]_vars
    /\ [][(uPc' = "submit" /\ uPc # "submit") => (uPc = "listOld" /\ uOldTasks' = TaskListDesiredRunning)]_vars
    /\ [][(uPc = "listOld" /\ uPc' = "err") => ~uSubmitted']_vars
    /\ [][(uPc \in {"ok", "err"}) => (uPc' = uPc /\ uSubmitted' = uSubmitted)]_vars
    /\ [][(uPc # "listOld") => uOldTasks' = uOldTasks]_vars
    /\ [](wPc # "notStarted" => uOldTasks = oldTaskIDs)

C24_Witness ==
    /\ uPc = "ok"
    /\ wPc = "completed"
    /\ uSubmitted
    /\ uOldTasks = {0}
    /\ \E i \in currentTasks : i \notin uExisting

\* C25: a task the watcher counts toward the failed-task budget was created
\* by the current update: it did not exist when the update was submitted.
C25_CountedTasksAreNew ==
    seenFailedTasks \cap uExisting = {}

\* The task of an earlier deployment that had already failed is counted.
C25_StaleTaskCounted ==
    /\ 1 \in seenFailedTasks
    /\ 1 \in uExisting
    /\ newFailedTaskCount >= 1

\* C28: after the settle delay, when the list holds no task id outside the
\* set listed before the update, deployService returns success without
\* entering waitForServiceUpdate; with a new id it enters the wait, and then
\* returns success only if the wait returned success.
C28_UnchangedServiceSkipsWait ==
    /\ [][(uPc = "settle" /\ uPc' # "settle" /\ TaskListDesiredRunning \subseteq uOldTasks)
            => (uPc' \in {"ok", "err"} /\ wPc' = "notStarted")]_vars
    /\ [][(uPc = "settle" /\ uPc' # "settle" /\ ~(TaskListDesiredRunning \subseteq uOldTasks))
            => ((uPc' = "wait" /\ wPc' = "polling") \/ (uPc' = "err" /\ wPc' = "notStarted"))]_vars
    /\ [][(uPc = "wait" /\ uPc' = "ok") => wPc = "completed"]_vars
    /\ [](uPc = "ok" => (wPc \in {"notStarted", "completed"} /\ uSubmitted))
    /\ [](uPc # "wait" => (wPc = "notStarted" \/ uPc \in {"ok", "err"}))

C28_Witness ==
    /\ uPc = "ok"
    /\ wPc = "notStarted"
    /\ uSubmitted
    /\ currentTasks = uExisting

\* C31: waitForServiceUpdates waits on the updated services one at a time in
\* list order; it returns nil only if every wait returned nil, and it
\* returns the error of the first wait that fails without waiting on any
\* later service.
C31_UpdatesWaitedInOrder ==
    /\ [](/\ Len(wuWaited) <= Len(wuServices)
          /\ wuWaited = SubSeq(wuServices, 1, Len(wuWaited))
          /\ Len(wuResults) \in {Len(wuWaited), Len(wuWaited) - 1})
    /\ [](wuRet = <<"nil">> =>
            /\ wuWaited = wuServices
            /\ Len(wuResults) = Len(wuServices)
            /\ \A i \in 1 .. Len(wuResults) : wuResults[i] = "nil")
    /\ [](wuRet \notin {<<"none">>, <<"nil">>} =>
            /\ Len(wuResults) = Len(wuWaited)
            /\ wuResults[Len(wuResults)] = "err"
            /\ \A i \in 1 .. Len(wuResults) - 1 : wuResults[i] = "nil"
            /\ wuRet = <<"err", wuServices[Len(wuResults)]>>)
    /\ [][(wuRet # <<"none">>) => (wuWaited' = wuWaited /\ wuRet' = wuRet)]_vars
    /\ []((\E i \in 1 .. Len(wuResults) : wuResults[i] = "err") => wuRet # <<"none">>)

C31_Witness ==
    /\ Len(wuServices) = 3
    /\ wuRet = <<"err", wuServices[2]>>
    /\ Len(wuWaited) = 2
    /\ wuResults = <<"nil", "err">>

\* C32: waitForServicesRemoval returns nil only after the inspect reported
\* every removed service as not found, so that none of them exists any more.
C32_NilOnlyAfterAllNotFound ==
    rmRet = "nil" =>
        /\ \A i \in 1 .. Len(rmServices) : rmServices[i] \in rmNotFound
        /\ \A i \in 1 .. Len(rmServices) : ~rmExists[rmServices[i]]

\* nil is returned while the last service still exists and the context is
\* done: its inspect failed for another reason than not-found.
C32_NilWithServicePresent ==
    /\ rmRet = "nil"
    /\ rmCtxDone
    /\ rmExists[rmServices[Len(rmServices)]]

\* C33: a ServiceUpdate rejected for its version index is followed by one
\* re-read of the service and one more ServiceUpdate; deployService returns
\* an update error caused by a conflict only after the second conflict.
C33_ConflictRetriedOnce ==
    (suRet = "updateError" /\ suConflicts > 0) =>
        (suConflicts = 2 /\ suReads = 2 /\ suUpdates = 2)

\* The first conflict is returned as the error of deployService.
C33_FirstConflictSurfaced ==
    /\ suRet = "updateError"
    /\ suConflicts = 1
    /\ suReads = 1
    /\ suUpdates = 1

\* C34: once the third attempt to list a service's tasks has failed in a
\* poll, the health monitor does not return success: the failure reaches
\* the caller as an error or a failed verdict.
C34_ExhaustedRetriesSurfaced ==
    rtExhausted => rtVerdict # "ok"

\* WaitHealthy returns true after a pass in which a task list failed three
\* times.
C34_SuccessAfterExhaustedRetries ==
    /\ rtFn = "WaitHealthy"
    /\ rtExhausted
    /\ rtVerdict = "ok"
    /\ rtPass = 2

\* C35: GetCurrentState returns nil and an error whenever ServiceList,
\* NetworkList, a NetworkInspect or VolumeList fails, and the state it
\* returns otherwise holds all three listings: what was built before a
\* failure is never returned.
C35_NoPartialState ==
    /\ gcPc \in {"ok", "err"} => (gcPc = "err" <=> gcFailing \in StateCalls)
    /\ gcPc = "ok" =>
         \A kind \in ObjectKinds : gcState[kind] = FillMap(kind, gcListed, 1, <<>>)

C35_Witness ==
    /\ gcPc = "err"
    /\ gcFailing = "VolumeList"
    /\ gcState["service"] # <<>>
    /\ gcState["network"] # <<>>
    /\ ListedOf("volume") = {}

\* C36: a CreatePlan call makes no call on the docker client and leaves the
\* current and the desired state as they were handed in.
C36_CreatePlanHasNoEffect ==
    /\ [](pClientCalls = 0)
    /\ [][pCurrent' = pCurrent /\ pDesired' = pDesired /\ pDesiredSvc' = pDesiredSvc]_vars

C36_Witness ==
    /\ pPc = "replanned"
    /\ pCurrent["services"] \ pDesired["services"] # {}
    /\ pDesired["networks"] \ pCurrent["networks"] # {}
    /\ \E i \in 1 .. Len(plan["services"]) : plan["services"][i].action = "delete"

\* C37: when rollback returns, it has made its attempt for every service
\* recorded in the map, whatever calls failed on the way.
C37_RollbackAttemptsEveryService ==
    rcPc = "returned" => rcAttempted = RollbackRecorded

C37_Witness ==
    /\ rcPc = "returned"
    /\ rcRun = 1
    /\ RollbackRecorded = composeServices
    /\ rcFailedFirst = {"web"}
    /\ rcCluster["web"] = ServiceSpec("v2", 2)
    /\ rcCluster["api"] = ServiceSpec("v1", 2)

C39_ExistingContainersNotStreamed ==
    /\ \A c \in lsPresentAtStart : lsStreams[c] = 0
    /\ \A c \in ContainerIds : lsStreams[c] <= 1

\* A container that ran when StreamLogs started has a log stream.
C39_ExistingContainerStreamed ==
    \E c \in lsPresentAtStart : lsStreams[c] = 1 /\ c \in lsRunning

\* C40: once the context is cancelled, StreamEvents, StreamHealthLogs and
\* StreamLogs eventually have returned, and every subprocess that was
\* started for a service's logs has had Kill called on it and runs no more.
StreamsStopped ==
    /\ evPc = "returned"
    /\ hlPc = "returned"
    /\ lgPc = "returned"
    /\ \A s \in LogServices :
         /\ lgProc[s] \notin {"spawned", "running"}
         /\ lgProc[s] \in {"killed", "exited"} => lgKiller[s] = "killed"

====
